---- MODULE Spec2Model ----
(***************************************************************************)
(* A model of the runtime core of async-graphql: the root wrapper          *)
(* (src/types/query_root.rs), the extension chain and the two-scope data   *)
(* lookup (src/extensions/mod.rs).                                         *)
(*                                                                         *)
(* Values of different Rust types are kept apart by a tag field `t`, so    *)
(* that any two values of the model can be compared.                       *)
(***************************************************************************)
EXTENDS Integers, Sequences, FiniteSets, TLC

VARIABLES
    registry,               \* schema_env.registry.types : type name -> MetaType
    data,                   \* schema_env.data : TypeId -> Box<dyn Any>
    ctx_data,               \* query_env.ctx_data : TypeId -> Box<dyn Any>
    disable_introspection,  \* QueryRoot.disable_introspection
    inner,                  \* QueryRoot.inner : the user's root object
    call,                   \* the call made on the core, with its inputs
    ret,                    \* what that call returned
    inner_calls,            \* the calls that call made on the inner root
    delivered,              \* the calls that call made on the chain's members
    query,                  \* the selection tree of the query being executed
    pc,                     \* where the resolution of each field is
    resolve_id,             \* the ResolveId of each field's resolution
    inc_resolve_id,         \* query_env's source of resolve ids
    joined,                 \* per selection set, the outputs of the fields done
    errors,                 \* the errors recorded for the response
    response,               \* the response of the query
    extensions,             \* query_env.extensions : the chain's members
    lock,                   \* the task holding the chain's lock, 0 when free
    tasks                   \* the resolver tasks that run concurrently

envVars == <<registry, data, ctx_data, disable_introspection, inner>>
callVars == <<call, ret, inner_calls, delivered>>
queryVars == <<query, pc, resolve_id, inc_resolve_id, joined, errors, response>>
lockVars == <<lock, tasks>>
execVars == <<queryVars, extensions, lockVars>>
vars == <<envVars, callVars, execVars>>

----------------------------------------------------------------------------
(* Bounds *)

MaxVal == 2         \* stored data values are 1..MaxVal
MaxReps == 2        \* an _entities call carries at most MaxReps representations
MaxKey == 2         \* the key of a representation is in 1..MaxKey
MaxNodes == 3       \* a query has at most MaxNodes fields

----------------------------------------------------------------------------
(* Rust's Option and Result, and a panic *)

None == [t |-> "None"]
Some(v) == [t |-> "Some", v |-> v]
Ok(v) == [t |-> "Ok", v |-> v]
Err(e) == [t |-> "Err", e |-> e]
Panic(msg) == [t |-> "panic", msg |-> msg]

NoCall == [op |-> "none"]
NoRet == [t |-> "none"]

\* The empty map
EmptyMap == [k \in {} |-> NoRet]

\* No call is being made on the core
CallIdle ==
    /\ call = NoCall
    /\ ret = NoRet
    /\ inner_calls = <<>>
    /\ delivered = <<>>

\* No query is being executed
QueryIdle ==
    /\ query = [parent |-> <<>>, nullable |-> <<>>]
    /\ pc = <<>>
    /\ resolve_id = <<>>
    /\ inc_resolve_id = 0
    /\ joined = EmptyMap
    /\ errors = <<>>
    /\ response = NoRet

\* No task is running and the lock of the chain is free
LockIdle ==
    /\ lock = 0
    /\ tasks = <<>>

ExecIdle ==
    /\ QueryIdle
    /\ extensions = <<>>
    /\ LockIdle

----------------------------------------------------------------------------
(* The type-erased data maps and the three lookups of ResolveInfo *)

\* The types D that data is stored and asked for under; a type is known by
\* its std::any::type_name.
DataTypes == {"i32", "String", "Token"}

\* TypeId::of::<D>()
TypeId_of(D) == <<"TypeId", D>>

\* Box<dyn Any> holding a value of type D
Box(D, v) == [type_id |-> TypeId_of(D), val |-> v]

\* <dyn Any>::downcast_ref::<D>()
downcast_ref(d, D) == IF d.type_id = TypeId_of(D) THEN Some(d.val) ELSE None

\* HashMap::get
map_get(m, k) == IF k \in DOMAIN m THEN Some(m[k]) ELSE None

\* The data maps that Data::insert can build: the key of a box is the TypeId
\* of the value in it.
DataMaps ==
    UNION { { [k \in {TypeId_of(D) : D \in S} |-> Box(k[2], f[k[2]])] : f \in [S -> 1..MaxVal] }
            : S \in SUBSET DataTypes }

\* A mutant of data_opt: the schema scope is searched first.
data_opt_schema_first(self, D) ==
    LET s == map_get(self.schema_env.data, TypeId_of(D))
        found == IF s.t = "Some" THEN s ELSE map_get(self.query_env.ctx_data, TypeId_of(D))
    IN  IF found.t = "Some" THEN downcast_ref(found.v, D) ELSE None

\* ResolveInfo::data_opt
data_opt(self, D) ==
    LET q == map_get(self.query_env.ctx_data, TypeId_of(D))
        found == IF q.t = "Some" THEN q ELSE map_get(self.schema_env.data, TypeId_of(D))
    IN  IF found.t = "Some" THEN downcast_ref(found.v, D) ELSE None

\* The character U+0060, which a TLA+ string cannot hold
BACKTICK == "'"

\* format!("Data `{}` does not exist.", std::any::type_name::<D>()), the
\* format string being Data U+0060{}U+0060 does not exist.
DataMissingMsg(D) == "Data " \o BACKTICK \o D \o BACKTICK \o " does not exist."

\* A mutant of data: the message of a miss names no type.
data_anonymous_miss(self, D) ==
    LET o == data_opt(self, D)
    IN  IF o.t = "Some" THEN Ok(o.v) ELSE Err("Data does not exist.")

\* ResolveInfo::data
data_checked(self, D) ==
    LET o == data_opt(self, D)
    IN  IF o.t = "Some" THEN Ok(o.v) ELSE Err(DataMissingMsg(D))

\* ResolveInfo::data_unchecked; a returned reference is modelled as Ok(&D)
data_unchecked(self, D) ==
    LET o == data_opt(self, D)
    IN  IF o.t = "Some" THEN Ok(o.v) ELSE Panic(DataMissingMsg(D))

\* The two data maps after a lookup: ResolveInfo holds shared references to
\* the two environments, and all that data_opt calls on their maps is
\* HashMap::get
data_opt_env(self, D) ==
    [ctx_data |-> self.query_env.ctx_data, data |-> self.schema_env.data]

\* The ResolveInfo handed to an extension, as far as the lookups read it
ResolveInfoEnv ==
    [query_env |-> [ctx_data |-> ctx_data], schema_env |-> [data |-> data]]

----------------------------------------------------------------------------
(* Specification SpecData: an extension looks data up *)

NoInner == [failing |-> {}]

InitData ==
    /\ data \in DataMaps
    /\ ctx_data \in DataMaps
    /\ registry = EmptyMap
    /\ disable_introspection = FALSE
    /\ inner = NoInner
    /\ CallIdle
    /\ ExecIdle

CallData(D) ==
    /\ call = NoCall
    /\ call' = [op |-> "data", D |-> D]
    /\ ret' = data_checked(ResolveInfoEnv, D)
    /\ ctx_data' = data_opt_env(ResolveInfoEnv, D).ctx_data
    /\ data' = data_opt_env(ResolveInfoEnv, D).data
    /\ UNCHANGED <<registry, disable_introspection, inner, inner_calls, delivered,
                   execVars>>

CallDataUnchecked(D) ==
    /\ call = NoCall
    /\ call' = [op |-> "data_unchecked", D |-> D]
    /\ ret' = data_unchecked(ResolveInfoEnv, D)
    /\ ctx_data' = data_opt_env(ResolveInfoEnv, D).ctx_data
    /\ data' = data_opt_env(ResolveInfoEnv, D).data
    /\ UNCHANGED <<registry, disable_introspection, inner, inner_calls, delivered,
                   execVars>>

CallDataOpt(D) ==
    /\ call = NoCall
    /\ call' = [op |-> "data_opt", D |-> D]
    /\ ret' = data_opt(ResolveInfoEnv, D)
    /\ ctx_data' = data_opt_env(ResolveInfoEnv, D).ctx_data
    /\ data' = data_opt_env(ResolveInfoEnv, D).data
    /\ UNCHANGED <<registry, disable_introspection, inner, inner_calls, delivered,
                   execVars>>

NextData ==
    \/ \E D \in DataTypes : CallData(D)
    \/ \E D \in DataTypes : CallDataUnchecked(D)
    \/ \E D \in DataTypes : CallDataOpt(D)

SpecData == InitData /\ [][NextData]_vars

----------------------------------------------------------------------------
(* Claims about the data lookup *)

InQuery(D) == TypeId_of(D) \in DOMAIN ctx_data
InSchema(D) == TypeId_of(D) \in DOMAIN data

\* C4: data_opt returns the query-scoped value of D whenever the query scope
\* has an entry for D, whatever the schema scope holds, and the schema-scoped
\* value only when the query scope has no entry for D.
C4_QueryScopeFirst ==
    call.op = "data_opt" =>
        /\ InQuery(call.D) => ret = Some(ctx_data[TypeId_of(call.D)].val)
        /\ (~InQuery(call.D) /\ InSchema(call.D)) => ret = Some(data[TypeId_of(call.D)].val)
        /\ (ret.t = "Some" /\ ~InQuery(call.D)) => InSchema(call.D)

\* C4 witness: both scopes hold D, with different values, and data_opt has
\* returned the query-scoped one.
C4_Witness ==
    /\ call.op = "data_opt"
    /\ InQuery(call.D) /\ InSchema(call.D)
    /\ ctx_data[TypeId_of(call.D)].val # data[TypeId_of(call.D)].val
    /\ ret = Some(ctx_data[TypeId_of(call.D)].val)

\* C5: on a miss in both scopes data returns the error whose message is
\* "Data 'D' does not exist." (D between two U+0060), data_unchecked panics
\* and data_opt returns nothing; on a hit all three return the value
\* data_opt returns.
C5_ThreeForms ==
    call.op \in {"data", "data_unchecked", "data_opt"} =>
        IF ~InQuery(call.D) /\ ~InSchema(call.D)
        THEN /\ call.op = "data" => ret = Err("Data '" \o call.D \o "' does not exist.")
             /\ call.op = "data_unchecked" => ret.t = "panic"
             /\ call.op = "data_opt" => ret = None
        ELSE /\ ret.t \in {"Ok", "Some"}
             /\ ret.v = (IF InQuery(call.D) THEN ctx_data[TypeId_of(call.D)].val
                                            ELSE data[TypeId_of(call.D)].val)

\* C5 witness: D is in neither scope and the fallible form has reported it.
C5_Witness ==
    /\ call.op = "data"
    /\ ~InQuery(call.D) /\ ~InSchema(call.D)
    /\ ret.t = "Err"

----------------------------------------------------------------------------
(* JSON values (serde_json::Value), input values, positions, errors *)

Null == [t |-> "null"]
JString(s) == [t |-> "string", s |-> s]
JNumber(n) == [t |-> "number", n |-> n]
JArray(items) == [t |-> "array", items |-> items]

\* An output object handed to OutputValueType::resolve with its selection set
Resolved(obj, selection_set) ==
    [t |-> "object", of |-> obj, selection_set |-> selection_set]

\* parser Value variants used by the root fields' arguments
VString(s) == [t |-> "String", s |-> s]
VInt(n) == [t |-> "Int", n |-> n]
VList(items) == [t |-> "List", items |-> items]
VObject(typename, key) == [t |-> "Object", typename |-> typename, key |-> key]

Pos(line, column) == [line |-> line, column |-> column]

\* Error::Query { pos, path, err }
Error_Query(pos, path, err) == [t |-> "Query", pos |-> pos, path |-> path, err |-> err]

\* QueryError::FieldNotFound { field_name, object }
FieldNotFound(field_name, object) ==
    [t |-> "FieldNotFound", field_name |-> field_name, object |-> object]

\* QueryPathNode { parent, segment }; a segment is a field name or an index
PathName(name) == [t |-> "Name", name |-> name]
PathIndex(idx) == [t |-> "Index", idx |-> idx]
QueryPathNode(parent, segment) == [parent |-> parent, segment |-> segment]

\* serde_json::to_value(path): the segments from the root to this node
RECURSIVE path_to_value(_)
path_to_value(node) ==
    LET seg == IF node.segment.t = "Name" THEN JString(node.segment.name)
                                          ELSE JNumber(node.segment.idx)
        up == IF node.parent.t = "Some" THEN path_to_value(node.parent.v).items ELSE <<>>
    IN  JArray(Append(up, seg))

\* ctx.path_node.as_ref().and_then(|path| serde_json::to_value(path).ok())
serialized_path(ctx) ==
    IF ctx.path_node.t = "Some" THEN Some(path_to_value(ctx.path_node.v)) ELSE None

----------------------------------------------------------------------------
(* The Type Registry, as far as the root wrapper reads it *)

\* The names of the fields of a query, the i-th field being FieldNames[i]
FieldNames == <<"a", "b", "c", "d", "e">>

\* The fields the user's types declare
InnerFields == {FieldNames[i] : i \in DOMAIN FieldNames}

\* registry::MetaInputValue, as `__type` declares its argument
MetaInputValue(name, ty) ==
    [name |-> name, description |-> None, ty |-> ty, default_value |-> None,
     validator |-> None]

\* registry::MetaField, as the root wrapper fills it in
MetaField(name, description, args, ty) ==
    [name |-> name, description |-> description, args |-> args, ty |-> ty,
     deprecation |-> None, cache_control |-> "default", external |-> FALSE,
     requires |-> None, provides |-> None]

\* registry::MetaType::Object and MetaType::Scalar; fields is an IndexMap,
\* the sequence of its entries in the order they were first inserted
MetaObject(name, fields) ==
    [kind |-> "Object", name |-> name, description |-> None, fields |-> fields,
     cache_control |-> "default", extends |-> FALSE, keys |-> None]
MetaScalar(name) == [kind |-> "Scalar", name |-> name, description |-> None]

\* IndexMap::insert: the value under a key the map holds is replaced where
\* it is, and a new key goes to the end
IndexMap_insert(map, key, value) ==
    IF \E i \in DOMAIN map : map[i].key = key
    THEN [i \in DOMAIN map |-> IF map[i].key = key THEN [key |-> key, value |-> value]
                                ELSE map[i]]
    ELSE Append(map, [key |-> key, value |-> value])

\* Registry::create_type::<T, _>(f): the type is registered under
\* T::type_name() unless the registry holds that name; the name is returned
create_type(types, type_name, ty) ==
    IF type_name \in DOMAIN types THEN [registry |-> types, ret |-> type_name]
    ELSE [registry |-> [k \in DOMAIN types \cup {type_name} |->
                           IF k = type_name THEN ty ELSE types[k]],
          ret |-> type_name]

\* __Schema::create_type_info: the introspection types are registered, of
\* which `__Schema` and `__Type` are kept here, without their fields
Schema_create_type_info(types) ==
    LET schema == create_type(types, "__Schema", MetaObject("__Schema", <<>>))
        type == create_type(schema.registry, "__Type", MetaObject("__Type", <<>>))
    IN  [registry |-> type.registry, ret |-> schema.ret]

\* T::type_name()
T_type_name == "Query"

\* The fields T declares, no arguments and a string each
T_fields ==
    [i \in DOMAIN FieldNames |->
        [key |-> FieldNames[i],
         value |-> MetaField(FieldNames[i], None, <<>>, "String")]]

\* T::create_type_info: T is any type that implements Type; T.registers
\* tells what it registers under its name, an object with its fields, a
\* scalar, or nothing
T_create_type_info(T, types) ==
    CASE T.registers = "Object" ->
             create_type(types, T_type_name, MetaObject(T_type_name, T_fields))
      [] T.registers = "Scalar" -> create_type(types, T_type_name, MetaScalar(T_type_name))
      [] OTHER -> [registry |-> types, ret |-> T_type_name]

\* The MetaField of `__schema`
SchemaField(schema_type) ==
    MetaField("__schema", Some("Access the current type schema of this server."),
              <<>>, schema_type)

\* The MetaField of `__type`, with its argument `name`
TypeField ==
    MetaField("__type", Some("Request the type information of a single type."),
              IndexMap_insert(<<>>, "name", MetaInputValue("name", "String!")),
              "__Type")

\* A mutant of QueryRoot::create_type_info: the fields are injected before
\* the inner type is registered.
QueryRoot_create_type_info_inject_first(T, types) ==
    LET schema_type == Schema_create_type_info(types)
        found == map_get(schema_type.registry, T_type_name)
        injected ==
            IF found.t = "Some" /\ found.v.kind = "Object"
            THEN [schema_type.registry EXCEPT ![T_type_name].fields =
                     IndexMap_insert(IndexMap_insert(@, "__schema",
                                                     SchemaField(schema_type.ret)),
                                     "__type", TypeField)]
            ELSE schema_type.registry
    IN  T_create_type_info(T, injected)

\* A mutant of QueryRoot::create_type_info: the two fields are put at the
\* end of the field table without a look at what it holds.
QueryRoot_create_type_info_pushed(T, types) ==
    LET schema_type == Schema_create_type_info(types)
        root == T_create_type_info(T, schema_type.registry)
        found == map_get(root.registry, T_type_name)
    IN  IF found.t = "Some" /\ found.v.kind = "Object"
        THEN [registry |->
                 [root.registry EXCEPT ![T_type_name].fields =
                     @ \o <<[key |-> "__schema", value |-> SchemaField(schema_type.ret)],
                            [key |-> "__type", value |-> TypeField]>>],
              ret |-> root.ret]
        ELSE [registry |-> root.registry, ret |-> root.ret]

\* A mutant of QueryRoot::create_type_info: an entry of another kind under
\* the inner root's name is made an object that holds the two fields.
QueryRoot_create_type_info_any_kind(T, types) ==
    LET schema_type == Schema_create_type_info(types)
        root == T_create_type_info(T, schema_type.registry)
        found == map_get(root.registry, T_type_name)
        fields == IF found.t = "Some" /\ found.v.kind = "Object" THEN found.v.fields
                  ELSE <<>>
    IN  IF found.t = "Some"
        THEN [registry |->
                 [root.registry EXCEPT ![T_type_name] =
                     MetaObject(T_type_name,
                                IndexMap_insert(IndexMap_insert(fields, "__schema",
                                                                SchemaField(schema_type.ret)),
                                                "__type", TypeField))],
              ret |-> root.ret]
        ELSE [registry |-> root.registry, ret |-> root.ret]

\* <QueryRoot<T> as Type>::create_type_info: the registry after it and the
\* name it returns
QueryRoot_create_type_info(T, types) ==
    LET schema_type == Schema_create_type_info(types)
        root == T_create_type_info(T, schema_type.registry)
        found == map_get(root.registry, T_type_name)
    IN  IF found.t = "Some" /\ found.v.kind = "Object"
        THEN [registry |->
                 [root.registry EXCEPT ![T_type_name].fields =
                     IndexMap_insert(IndexMap_insert(@, "__schema",
                                                     SchemaField(schema_type.ret)),
                                     "__type", TypeField)],
              ret |-> root.ret]
        ELSE [registry |-> root.registry, ret |-> root.ret]

\* <EmptySubscription as Type>::type_name
EmptySubscription_type_name == "EmptyMutation"

\* <EmptySubscription as Type>::create_type_info
EmptySubscription_create_type_info(types) ==
    create_type(types, EmptySubscription_type_name, MetaObject("EmptySubscription", <<>>))

\* <EmptySubscription as SubscriptionType>::is_empty
EmptySubscription_is_empty == TRUE

\* QueryError::NotConfiguredSubscriptions
NotConfiguredSubscriptions == [t |-> "NotConfiguredSubscriptions"]

\* Pos::default()
Pos_default == [line |-> 0, column |-> 0]

\* stream::once(future): the stream of the one item the future gives; a
\* stream is the sequence of its items
stream_once(item) == <<item>>

\* A mutant of create_field_stream: the stream ends without an item.
EmptySubscription_create_field_stream_ended(self, ctx) == <<>>

\* <EmptySubscription as SubscriptionType>::create_field_stream
EmptySubscription_create_field_stream(self, ctx) ==
    stream_once(Err([t |-> "Query", pos |-> Pos_default, path |-> None,
                     err |-> NotConfiguredSubscriptions]))

\* <Upload as Type>::type_name
Upload_type_name == "Upload"

\* <Upload as Type>::create_type_info
Upload_create_type_info(types) ==
    create_type(types, Upload_type_name, MetaScalar(Upload_type_name))

\* parser Value::Null, which is Value::default(), and Value::Upload
VNull == [t |-> "Null"]
Value_default == VNull
UploadValue(filename, content_type, content) ==
    [filename |-> filename, content_type |-> content_type, content |-> content]
VUpload(upload) == [t |-> "Upload", upload |-> upload]

\* The is_valid of the scalar Upload registers:
\* |value| matches!(value, Value::Upload(_))
Upload_is_valid(value) == value.t = "Upload"

\* Option::unwrap_or_default
unwrap_or_default(value) == IF value.t = "Some" THEN value.v ELSE Value_default

\* InputValueError::ExpectedType and the handle Upload(UploadValue)
ExpectedType(value) == [t |-> "ExpectedType", value |-> value]
Upload(upload) == [t |-> "UploadHandle", upload |-> upload]

\* Upload::parse, were every value that is no upload reported as null
Upload_parse_null_reported(value) ==
    LET v == unwrap_or_default(value)
    IN  IF v.t = "Upload" THEN Ok(Upload(v.upload))
        ELSE Err(ExpectedType(VNull))

\* <Upload as InputValueType>::parse
Upload_parse(value) ==
    LET v == unwrap_or_default(value)
    IN  IF v.t = "Upload" THEN Ok(Upload(v.upload))
        ELSE Err(ExpectedType(v))

\* Upload::to_value, were the handle serialized as the upload it holds
Upload_to_value_upload(self) == VUpload(self.upload)

\* <Upload as InputValueType>::to_value
Upload_to_value(self) == VNull

\* The registry of a schema whose query root is an object type and which
\* has no subscription root and takes uploads
BuiltRegistry ==
    Upload_create_type_info(
        EmptySubscription_create_type_info(
            QueryRoot_create_type_info([registers |-> "Object"], EmptyMap).registry
        ).registry).registry

\* The keys a registry may hold beside those of introspection, and the entry
\* under each; EmptySubscription registers under the key "EmptyMutation"
TypeKeys == {"Query", "Upload", "EmptyMutation"}

MetaTypeOf(key) == BuiltRegistry[key]

Registries == { [k \in S |-> MetaTypeOf(k)] : S \in SUBSET TypeKeys }

\* Registry::export_sdl(federation): the schema text, a function of the
\* registry's types and of the federation flag
export_sdl(reg, federation) ==
    [t |-> "sdl", types |-> {reg[k].name : k \in DOMAIN reg}, federation |-> federation]

\* __Type::new_simple(registry, ty)
Type_new_simple(reg, ty) == [t |-> "__Type", detail |-> ty]

\* __Schema { registry }
Schema_object(reg) == [t |-> "__Schema", types |-> DOMAIN reg]

\* Service { sdl }
Service(sdl) == [t |-> "_Service", sdl |-> sdl]

\* OutputValueType::resolve of an Option of an object, the object's own
\* resolve being the resolution of the selection set against it
OutputValueType_resolve(value, ctx_obj, item) ==
    IF value.t = "None" THEN Ok(Null)
    ELSE Ok(Resolved(value.v, ctx_obj.selection_set))

\* Context::with_selection_set
with_selection_set(ctx, selection_set) == [selection_set |-> selection_set]

\* Context::param_value::<String>(name, None): a missing argument is null,
\* and only a string parses
param_value_String(ctx, name) ==
    LET args == ctx.item.node.arguments
    IN  IF name \in DOMAIN args /\ args[name].t = "String"
        THEN Ok(args[name].s)
        ELSE Err(Error_Query(ctx.item.pos, None, [t |-> "ParseInputValue", name |-> name]))

\* Context::param_value::<Vec<Any>>(name, None): the items of a list, each
\* kept as it is
param_value_VecAny(ctx, name) ==
    LET args == ctx.item.node.arguments
    IN  IF name \in DOMAIN args /\ args[name].t = "List"
        THEN Ok(args[name].items)
        ELSE Err(Error_Query(ctx.item.pos, None, [t |-> "ParseInputValue", name |-> name]))

----------------------------------------------------------------------------
(* The inner root T: the user's root object *)

\* The entity types T can resolve a representation of
EntityTypes == {"User", "Product"}

\* T::find_entity(ctx, value)
T_find_entity(self, ctx, value) ==
    IF value.t = "Object" /\ value.typename \in EntityTypes
    THEN Ok([t |-> "entity", typename |-> value.typename, key |-> value.key])
    ELSE Err(Error_Query(ctx.item.pos, None, [t |-> "EntityNotFound"]))

\* T::resolve_field(ctx): the user's resolver of the field, which fails for
\* the fields in self.failing
T_resolve_field(self, ctx) ==
    LET name == ctx.item.node.name
    IN  IF name \notin InnerFields
        THEN Err(Error_Query(ctx.item.pos, None, FieldNotFound(name, T_type_name)))
        ELSE IF name \in self.failing
        THEN Err(Error_Query(ctx.item.pos, serialized_path(ctx),
                             [t |-> "FieldError", message |-> name]))
        ELSE Ok(JString(name))

CallFindEntity(value) == [fn |-> "find_entity", value |-> value]
CallResolveField(ctx) == [fn |-> "resolve_field", ctx |-> ctx]

\* Any(value) of the source, the scalar that keeps an input value as it is; `.0` is `.v`
AnyScalar(value) == [t |-> "Any", v |-> value]

----------------------------------------------------------------------------
(* QueryRoot<T> *)

\* <QueryRoot<T> as Type>::type_name
QueryRoot_type_name == T_type_name

\* Positioned<String>::to_string: the node, without its position
name_to_string(name) == name

\* A mutant of the `__schema` branch: the flag is not looked at.
resolve_field_schema_flag_ignored(self, ctx) ==
    [ret |-> OutputValueType_resolve(Some(Schema_object(ctx.schema_env.registry)),
                                     with_selection_set(ctx, ctx.item.node.selection_set),
                                     ctx.item),
     calls |-> <<>>]

\* QueryRoot::resolve_field, the branch of the field `__schema`
resolve_field_schema(self, ctx) ==
    IF self.disable_introspection
    THEN [ret |-> Err(Error_Query(ctx.item.pos, serialized_path(ctx),
                                  FieldNotFound(name_to_string(ctx.item.node.name),
                                                QueryRoot_type_name))),
          calls |-> <<>>]
    ELSE [ret |-> OutputValueType_resolve(Some(Schema_object(ctx.schema_env.registry)),
                                          with_selection_set(ctx, ctx.item.node.selection_set),
                                          ctx.item),
          calls |-> <<>>]

\* A mutant of the `__type` branch: a name the registry does not hold is a
\* field-not-found error.
resolve_field_type_unknown_is_error(self, ctx) ==
    LET type_name == param_value_String(ctx, "name")
        types == ctx.schema_env.registry
    IN  IF type_name.t = "Err" THEN [ret |-> type_name, calls |-> <<>>]
        ELSE IF type_name.v \notin DOMAIN types
        THEN [ret |-> Err(Error_Query(ctx.item.pos, serialized_path(ctx),
                                      FieldNotFound(type_name.v, QueryRoot_type_name))),
              calls |-> <<>>]
        ELSE [ret |-> OutputValueType_resolve(
                          Some(Type_new_simple(types, types[type_name.v])),
                          with_selection_set(ctx, ctx.item.node.selection_set), ctx.item),
              calls |-> <<>>]

\* A mutant of the `__type` branch: with introspection disabled the field is
\* refused as `__schema` is.
resolve_field_type_flag_checked(self, ctx) ==
    LET type_name == param_value_String(ctx, "name")
        types == ctx.schema_env.registry
        found == IF type_name.v \in DOMAIN types
                 THEN Some(Type_new_simple(types, types[type_name.v]))
                 ELSE None
    IN  IF self.disable_introspection
        THEN [ret |-> Err(Error_Query(ctx.item.pos, serialized_path(ctx),
                                      FieldNotFound(name_to_string(ctx.item.node.name),
                                                    QueryRoot_type_name))),
              calls |-> <<>>]
        ELSE IF type_name.t = "Err" THEN [ret |-> type_name, calls |-> <<>>]
        ELSE [ret |-> OutputValueType_resolve(
                          found, with_selection_set(ctx, ctx.item.node.selection_set),
                          ctx.item),
              calls |-> <<>>]

\* QueryRoot::resolve_field, the branch of the field `__type`
resolve_field_type(self, ctx) ==
    LET type_name == param_value_String(ctx, "name")
        types == ctx.schema_env.registry
        found == IF type_name.v \in DOMAIN types
                 THEN Some(Type_new_simple(types, types[type_name.v]))
                 ELSE None
    IN  IF type_name.t = "Err" THEN [ret |-> type_name, calls |-> <<>>]
        ELSE [ret |-> OutputValueType_resolve(
                          found, with_selection_set(ctx, ctx.item.node.selection_set),
                          ctx.item),
              calls |-> <<>>]

\* A mutant of the loop of the `_entities` branch: each result is put in
\* front of the earlier ones.
RECURSIVE entities_loop_prepend(_, _, _, _, _)
entities_loop_prepend(self, ctx, representations, res, calls) ==
    IF representations = <<>> THEN [ret |-> Ok(JArray(res)), calls |-> calls]
    ELSE LET item == Head(representations)
             found == T_find_entity(self.inner, ctx, item.v)
             called == Append(calls, CallFindEntity(item.v))
         IN  IF found.t = "Err" THEN [ret |-> found, calls |-> called]
             ELSE entities_loop_prepend(self, ctx, Tail(representations),
                                        <<found.v>> \o res, called)

\* The loop of the `_entities` branch over the representations left, with
\* the results pushed and the calls made so far; `?` returns the first error
RECURSIVE entities_loop(_, _, _, _, _)
entities_loop(self, ctx, representations, res, calls) ==
    IF representations = <<>> THEN [ret |-> Ok(JArray(res)), calls |-> calls]
    ELSE LET item == Head(representations)
             found == T_find_entity(self.inner, ctx, item.v)
             called == Append(calls, CallFindEntity(item.v))
         IN  IF found.t = "Err" THEN [ret |-> found, calls |-> called]
             ELSE entities_loop(self, ctx, Tail(representations),
                                Append(res, found.v), called)

\* QueryRoot::resolve_field, the branch of the field `_entities`
resolve_field_entities(self, ctx) ==
    LET representations == param_value_VecAny(ctx, "representations")
    IN  IF representations.t = "Err" THEN [ret |-> representations, calls |-> <<>>]
        ELSE entities_loop(self, ctx, representations.v, <<>>, <<>>)

\* A mutant of the `_service` branch: no SDL when introspection is disabled.
resolve_field_service_hidden(self, ctx) ==
    [ret |-> OutputValueType_resolve(
                 Some(Service(IF self.disable_introspection THEN None
                              ELSE Some(export_sdl(ctx.schema_env.registry, TRUE)))),
                 with_selection_set(ctx, ctx.item.node.selection_set), ctx.item),
     calls |-> <<>>]

\* QueryRoot::resolve_field, the branch of the field `_service`
resolve_field_service(self, ctx) ==
    [ret |-> OutputValueType_resolve(
                 Some(Service(Some(export_sdl(ctx.schema_env.registry, TRUE)))),
                 with_selection_set(ctx, ctx.item.node.selection_set), ctx.item),
     calls |-> <<>>]

\* A mutant of QueryRoot::resolve_field: `_service` is not intercepted.
QueryRoot_resolve_field_three_reserved(self, ctx) ==
    IF ctx.item.node.name = "__schema" THEN resolve_field_schema(self, ctx)
    ELSE IF ctx.item.node.name = "__type" THEN resolve_field_type(self, ctx)
    ELSE IF ctx.item.node.name = "_entities" THEN resolve_field_entities(self, ctx)
    ELSE [ret |-> T_resolve_field(self.inner, ctx), calls |-> <<CallResolveField(ctx)>>]

\* QueryRoot::resolve_field: what it returns and the calls it makes on the
\* inner root
QueryRoot_resolve_field(self, ctx) ==
    IF ctx.item.node.name = "__schema" THEN resolve_field_schema(self, ctx)
    ELSE IF ctx.item.node.name = "__type" THEN resolve_field_type(self, ctx)
    ELSE IF ctx.item.node.name = "_entities" THEN resolve_field_entities(self, ctx)
    ELSE IF ctx.item.node.name = "_service" THEN resolve_field_service(self, ctx)
    ELSE [ret |-> T_resolve_field(self.inner, ctx), calls |-> <<CallResolveField(ctx)>>]

\* A mutant of the registry after resolve_field: `__type` of a name the
\* registry does not hold leaves an entry under that name.
QueryRoot_resolve_field_registry_type_noted(self, ctx) ==
    LET types == ctx.schema_env.registry
        type_name == param_value_String(ctx, "name")
    IN  IF ctx.item.node.name = "__type" /\ type_name.t = "Ok"
           /\ type_name.v \notin DOMAIN types
        THEN [k \in DOMAIN types \cup {type_name.v} |->
                 IF k \in DOMAIN types THEN types[k] ELSE MetaScalar(k)]
        ELSE types

\* The registry after QueryRoot::resolve_field: the registry is reached
\* through the shared references ctx and ctx.schema_env, and all that the
\* branches do with it is get on its types, export_sdl and the making of
\* __Schema and __Type, which borrow it
QueryRoot_resolve_field_registry(self, ctx) == ctx.schema_env.registry

----------------------------------------------------------------------------
(* Specification SpecRoot: one root field is resolved through QueryRoot *)

Positions == {Pos(1, 3), Pos(2, 5)}

\* The path of a root field, and a longer one ending in the field
PathNodes(name) ==
    {None,
     Some(QueryPathNode(None, PathName(name))),
     Some(QueryPathNode(Some(QueryPathNode(Some(QueryPathNode(None, PathName("list"))),
                                           PathIndex(0))),
                        PathName(name)))}

SelectionSets == {<<"__typename">>, <<"__typename", "sdl">>}

\* Sequences of at most n elements of S
SeqUpTo(S, n) == UNION {[1..k -> S] : k \in 0..n}

Representations ==
    {VObject(tn, k) : tn \in EntityTypes \cup {"Ghost"}, k \in 1..MaxKey}

\* The argument tables of a field: partial functions from names to values
NoArguments == [n \in {} |-> Null]
OneArgument(name, value) == [n \in {name} |-> value]

TypeArguments ==
    {NoArguments, OneArgument("name", VInt(1))}
        \cup {OneArgument("name", VString(k)) : k \in TypeKeys \cup {"NoSuchType", "EmptySubscription"}}

EntitiesArguments ==
    {NoArguments, OneArgument("representations", VString("User"))}
        \cup {OneArgument("representations", VList([i \in DOMAIN reps |-> AnyScalar(reps[i])]))
                : reps \in SeqUpTo(Representations, MaxReps)}

\* The contexts of a field of the given name
Contexts(name, argument_tables) ==
    {[item |-> [pos |-> pos,
                node |-> [name |-> name, arguments |-> arguments,
                          selection_set |-> selection_set]],
      path_node |-> path_node,
      schema_env |-> [registry |-> registry]]
        : pos \in Positions, arguments \in argument_tables,
          selection_set \in SelectionSets, path_node \in PathNodes(name)}

QueryRootSelf == [inner |-> inner, disable_introspection |-> disable_introspection]

InitRoot ==
    /\ registry \in Registries
    /\ data = EmptyMap
    /\ ctx_data = EmptyMap
    /\ disable_introspection \in BOOLEAN
    /\ inner \in {[failing |-> F] : F \in SUBSET {"b"}}
    /\ CallIdle
    /\ ExecIdle

\* QueryRoot::resolve_field is called with ctx
ResolveField(ctx) ==
    LET r == QueryRoot_resolve_field(QueryRootSelf, ctx)
    IN  /\ call' = [op |-> "resolve_field", ctx |-> ctx]
        /\ ret' = r.ret
        /\ inner_calls' = r.calls
        /\ registry' = QueryRoot_resolve_field_registry(QueryRootSelf, ctx)
        /\ UNCHANGED <<data, ctx_data, disable_introspection, inner, delivered,
                       execVars>>

ResolveSchema ==
    /\ call = NoCall
    /\ \E ctx \in Contexts("__schema", {NoArguments}) : ResolveField(ctx)

ResolveType ==
    /\ call = NoCall
    /\ \E ctx \in Contexts("__type", TypeArguments) : ResolveField(ctx)

ResolveEntities ==
    /\ call = NoCall
    /\ \E ctx \in Contexts("_entities", EntitiesArguments) : ResolveField(ctx)

ResolveService ==
    /\ call = NoCall
    /\ \E ctx \in Contexts("_service", {NoArguments}) : ResolveField(ctx)

ResolveInner ==
    /\ call = NoCall
    /\ \E name \in {"a", "b", "nosuch"} :
           \E ctx \in Contexts(name, {NoArguments}) : ResolveField(ctx)

NextRoot ==
    \/ ResolveSchema
    \/ ResolveType
    \/ ResolveEntities
    \/ ResolveService
    \/ ResolveInner

SpecRoot == InitRoot /\ [][NextRoot]_vars

----------------------------------------------------------------------------
(* Claims about the root fields *)

Resolving(name) == call.op = "resolve_field" /\ call.ctx.item.node.name = name

CallArguments == call.ctx.item.node.arguments

\* C6: with introspection disabled the root field `__schema` is a
\* field-not-found query error at the position of the field, naming the
\* field `__schema` and the root type, with the serialized current path; the
\* inner root is not called and no introspection object is produced.
C6_SchemaDisabled ==
    (Resolving("__schema") /\ disable_introspection) =>
        /\ ret.t = "Err"
        /\ ret.e.t = "Query"
        /\ ret.e.pos = call.ctx.item.pos
        /\ ret.e.err = FieldNotFound("__schema", T_type_name)
        /\ ret.e.path = (IF call.ctx.path_node.t = "Some"
                         THEN Some(path_to_value(call.ctx.path_node.v))
                         ELSE None)
        /\ inner_calls = <<>>

\* C6 witness: `__schema` at line 2, column 5, below list[0], has been
\* refused with that position and the path ["list", 0, "__schema"].
C6_Witness ==
    /\ Resolving("__schema") /\ disable_introspection
    /\ ret.t = "Err"
    /\ ret.e.pos = Pos(2, 5)
    /\ ret.e.path = Some(JArray(<<JString("list"), JNumber(0), JString("__schema")>>))

\* C7: `__type` with a name that is no key of the registry is the value null
\* and no error; with a name that is a key it is the introspection object of
\* exactly the entry under that key.
C7_TypeLookup ==
    (/\ Resolving("__type")
     /\ "name" \in DOMAIN CallArguments
     /\ CallArguments["name"].t = "String") =>
        IF CallArguments["name"].s \in DOMAIN registry
        THEN /\ ret.t = "Ok"
             /\ ret.v.t = "object"
             /\ ret.v.of.t = "__Type"
             /\ ret.v.of.detail = registry[CallArguments["name"].s]
        ELSE ret = Ok(Null)

\* C7 witness: the registry holds some type but not the one asked for, and
\* the answer is null.
C7_Witness ==
    /\ Resolving("__type")
    /\ "name" \in DOMAIN CallArguments
    /\ CallArguments["name"] = VString("NoSuchType")
    /\ "Query" \in DOMAIN registry
    /\ ret = Ok(Null)

\* The representations of an `_entities` call that carries a list
CallRepresentations == CallArguments["representations"].items

HasRepresentations ==
    /\ Resolving("_entities")
    /\ "representations" \in DOMAIN CallArguments
    /\ CallArguments["representations"].t = "List"

EntityOf(i) == T_find_entity(inner, call.ctx, CallRepresentations[i].v)

\* C8: when every representation resolves, the list returned for
\* `_entities` is as long as the representations and its i-th element is
\* what find_entity of the inner root returns for the i-th representation.
C8_EntitiesInOrder ==
    (/\ HasRepresentations
     /\ \A i \in DOMAIN CallRepresentations : EntityOf(i).t = "Ok") =>
        /\ ret.t = "Ok"
        /\ ret.v.t = "array"
        /\ Len(ret.v.items) = Len(CallRepresentations)
        /\ \A i \in DOMAIN CallRepresentations : ret.v.items[i] = EntityOf(i).v

\* C8 witness: two representations of different entities have been
\* resolved.
C8_Witness ==
    /\ HasRepresentations
    /\ Len(CallRepresentations) = 2
    /\ CallRepresentations[1].v.typename # CallRepresentations[2].v.typename
    /\ \A i \in DOMAIN CallRepresentations : EntityOf(i).t = "Ok"
    /\ ret.t = "Ok"

\* C9: when one representation matches no known entity type, the error is
\* confined to that element: find_entity is still called on every other
\* representation and the results of those are in the list returned.
C9_ErrorConfined ==
    (/\ HasRepresentations
     /\ \E i \in DOMAIN CallRepresentations : EntityOf(i).t = "Err") =>
        /\ Len(inner_calls) = Len(CallRepresentations)
        /\ ret.t = "Ok"
        /\ ret.v.t = "array"
        /\ Len(ret.v.items) = Len(CallRepresentations)
        /\ \A i \in DOMAIN CallRepresentations :
               EntityOf(i).t = "Ok" => ret.v.items[i] = EntityOf(i).v

\* C10: `_service` is an object of the type _Service with the one field
\* sdl, always present and equal to the exported SDL of the schema, whatever
\* the inner root and the introspection flag are.
C10_Service ==
    Resolving("_service") =>
        /\ ret.t = "Ok"
        /\ ret.v.t = "object"
        /\ ret.v.of.t = "_Service"
        /\ DOMAIN ret.v.of = {"t", "sdl"}
        /\ ret.v.of.sdl = Some(export_sdl(registry, TRUE))
        /\ inner_calls = <<>>
        /\ \A flag \in BOOLEAN, failing \in SUBSET {"a", "b"} :
               QueryRoot_resolve_field([inner |-> [failing |-> failing],
                                        disable_introspection |-> flag],
                                       call.ctx).ret = ret

\* C10 witness: `_service` has been resolved with introspection disabled
\* and an inner root whose resolver fails.
C10_Witness ==
    /\ Resolving("_service")
    /\ disable_introspection
    /\ inner.failing # {}
    /\ ret.t = "Ok"
    /\ ret.v.of.sdl.t = "Some"

\* The four field names the wrapper answers itself
ReservedNames == {"__schema", "__type", "_entities", "_service"}

\* C11: a root field of any other name than the four reserved ones returns
\* exactly what resolve_field of the inner root returns for the same
\* context, value or error, and that resolve_field is called exactly once;
\* for a reserved name resolve_field of the inner root is never called.
C11_Delegation ==
    call.op = "resolve_field" =>
        IF call.ctx.item.node.name \notin ReservedNames
        THEN /\ ret = T_resolve_field(inner, call.ctx)
             /\ inner_calls = <<CallResolveField(call.ctx)>>
        ELSE \A i \in DOMAIN inner_calls : inner_calls[i].fn # "resolve_field"

\* C11 witness: the field b, whose resolver fails, has been delegated and
\* the error of the inner root has come back as it was.
C11_Witness ==
    /\ Resolving("b")
    /\ inner.failing = {"b"}
    /\ inner_calls = <<CallResolveField(call.ctx)>>
    /\ ret.t = "Err"
    /\ ret.e.err = [t |-> "FieldError", message |-> "b"]

----------------------------------------------------------------------------
(* The extension chain *)

\* A member of the chain is a Box<dyn Extension>: name is what its name()
\* returns, result what its result() returns, and overrides tells whether
\* its type overrides the hooks of the trait or keeps the defaults, which do
\* nothing. A member that overrides them records what it is called with:
\* seen for resolve_start and resolve_end, errs for error, phases for the
\* other hooks.
NewMember(name, overrides, result) ==
    [name |-> name, overrides |-> overrides, result |-> result,
     seen |-> EmptyMap, errs |-> <<>>, phases |-> <<>>]

\* What a member has seen of the hook `hook` for the resolve id `id`: a
\* member keeps, per resolve id, the hooks it was called with, in order
Noted(seen, id, hook) ==
    IF id \in DOMAIN seen THEN [seen EXCEPT ![id] = Append(@, hook)]
    ELSE seen @@ (id :> <<hook>>)

\* Extension::resolve_start of a member that records what it is called with
Member_resolve_start(e, info) ==
    [e EXCEPT !.seen = Noted(@, info.resolve_id.current, "resolve_start")]

\* Extension::resolve_end of such a member
Member_resolve_end(e, info) ==
    [e EXCEPT !.seen = Noted(@, info.resolve_id.current, "resolve_end")]

\* Extension::error of such a member
Member_error(e, err) == [e EXCEPT !.errs = Append(@, err)]

\* Extension::parse_start, parse_end, validation_start, validation_end,
\* execution_start and execution_end of such a member
Member_phase(e, hook, args) ==
    [e EXCEPT !.phases = Append(@, [hook |-> hook, args |-> args])]

\* The hooks of the trait Extension that return nothing
PhaseHooks ==
    {"parse_start", "parse_end", "validation_start", "validation_end",
     "execution_start", "execution_end", "resolve_start", "resolve_end", "error"}

\* e.hook(args) on a member: the method of the member's own type, which is
\* the empty default of the trait unless the type overrides it
Member_call(e, hook, args) ==
    IF ~e.overrides THEN e
    ELSE CASE hook = "resolve_start" -> Member_resolve_start(e, args[1])
           [] hook = "resolve_end" -> Member_resolve_end(e, args[1])
           [] hook = "error" -> Member_error(e, args[1])
           [] OTHER -> Member_phase(e, hook, args)

\* One call of a hook on a member, as the chain makes it
Delivery(i, hook, args) == [member |-> i, hook |-> hook, args |-> args]

\* A mutant of the broadcast: the members are called from the last to the
\* first.
for_each_rev(members, hook, args) ==
    [members |-> [i \in DOMAIN members |-> Member_call(members[i], hook, args)],
     delivered |-> [i \in DOMAIN members |->
                       Delivery(Len(members) + 1 - i, hook, args)]]

\* self.0.iter_mut().for_each(|e| e.hook(args)): the i-th call is made on
\* the i-th member, which alone it changes; members are the members after
\* the loop, delivered the calls in the order they were made
for_each(members, hook, args) ==
    [members |-> [i \in DOMAIN members |-> Member_call(members[i], hook, args)],
     delivered |-> [i \in DOMAIN members |-> Delivery(i, hook, args)]]

\* Each hook of the chain gives the members after it and the calls it made
\* on them.

\* <Extensions as Extension>::parse_start
Extensions_parse_start(self, query_source, variables) ==
    for_each(self, "parse_start", <<query_source, variables>>)

\* <Extensions as Extension>::parse_end
Extensions_parse_end(self, document) == for_each(self, "parse_end", <<document>>)

\* <Extensions as Extension>::validation_start
Extensions_validation_start(self) == for_each(self, "validation_start", <<>>)

\* <Extensions as Extension>::validation_end
Extensions_validation_end(self) == for_each(self, "validation_end", <<>>)

\* <Extensions as Extension>::execution_start
Extensions_execution_start(self) == for_each(self, "execution_start", <<>>)

\* <Extensions as Extension>::execution_end
Extensions_execution_end(self) == for_each(self, "execution_end", <<>>)

\* <Extensions as Extension>::resolve_start
Extensions_resolve_start(self, info) == for_each(self, "resolve_start", <<info>>)

\* A mutant of the broadcast of resolve_end: only the first member is called.
Extensions_resolve_end_first_only(self, info) ==
    [members |-> [i \in DOMAIN self |->
                     IF i = 1 THEN Member_call(self[i], "resolve_end", <<info>>)
                     ELSE self[i]],
     delivered |-> IF self = <<>> THEN <<>>
                   ELSE <<Delivery(1, "resolve_end", <<info>>)>>]

\* <Extensions as Extension>::resolve_end
Extensions_resolve_end(self, info) == for_each(self, "resolve_end", <<info>>)

\* A mutant of the broadcast of error: only the members that declare a name
\* are told.
Extensions_error_named_only(self, err) ==
    [members |-> [i \in DOMAIN self |->
                     IF self[i].name.t = "Some" THEN Member_call(self[i], "error", <<err>>)
                     ELSE self[i]],
     delivered |-> SelectSeq([i \in DOMAIN self |-> Delivery(i, "error", <<err>>)],
                             LAMBDA d : self[d.member].name.t = "Some")]

\* <Extensions as Extension>::error
Extensions_error(self, err) == for_each(self, "error", <<err>>)

\* serde_json::Value::Object of a serde_json::Map, a map from keys to values
JMap(map) == [t |-> "map", fields |-> map]

\* A mutant of the closure of filter_map: a member without a name
\* contributes under the empty name.
result_entry_default_name(e) ==
    [called |-> TRUE,
     pair |-> IF e.result.t = "Some"
              THEN Some([key |-> IF e.name.t = "Some" THEN e.name.v ELSE "",
                         value |-> e.result.v])
              ELSE None]

\* The closure of filter_map in Extensions::result: the pair a member
\* contributes, and whether its result() was called, which it is only on a
\* member that has a name
result_entry(e) ==
    IF e.name.t = "Some"
    THEN [called |-> TRUE,
          pair |-> IF e.result.t = "Some"
                   THEN Some([key |-> e.name.v, value |-> e.result.v])
                   ELSE None]
    ELSE [called |-> FALSE, pair |-> None]

\* A mutant of collect: a pair does not replace an earlier pair of its key.
RECURSIVE collect_map_keep_first(_, _)
collect_map_keep_first(pairs, map) ==
    IF pairs = <<>> THEN map
    ELSE LET p == Head(pairs)
         IN  collect_map_keep_first(Tail(pairs),
                                    [k \in DOMAIN map \cup {p.key} |->
                                        IF k \in DOMAIN map THEN map[k] ELSE p.value])

\* collect::<serde_json::Map<_, _>>(): the pairs are inserted one after the
\* other, a pair replacing an earlier pair of the same key
RECURSIVE collect_map(_, _)
collect_map(pairs, map) ==
    IF pairs = <<>> THEN map
    ELSE LET p == Head(pairs)
         IN  collect_map(Tail(pairs),
                         [k \in DOMAIN map \cup {p.key} |->
                             IF k = p.key THEN p.value ELSE map[k]])

\* The pairs that filter_map lets through, in the order of the members
filter_map(self) ==
    LET kept == SelectSeq(self, LAMBDA e : result_entry(e).pair.t = "Some")
    IN  [i \in DOMAIN kept |-> result_entry(kept[i]).pair.v]

\* The calls of result() that the closure makes on the members, in order
result_calls(self) ==
    LET called == SelectSeq([i \in DOMAIN self |-> i],
                            LAMBDA i : result_entry(self[i]).called)
    IN  [k \in DOMAIN called |-> Delivery(called[k], "result", <<>>)]

\* A mutant of Extensions::result: a map without entries is returned as an
\* object.
Extensions_result_empty_object(self) ==
    IF self # <<>>
    THEN Some(JMap(collect_map(filter_map(self), EmptyMap)))
    ELSE None

\* <Extensions as Extension>::result
Extensions_result(self) ==
    IF self # <<>>
    THEN LET value == collect_map(filter_map(self), EmptyMap)
         IN  IF DOMAIN value = {} THEN None ELSE Some(JMap(value))
    ELSE None

\* A mutant of log_error: the error is logged and then dropped.
log_error_dropped(self, exts) ==
    IF self.t = "Err"
    THEN LET logged == Extensions_error(exts, self.e)
         IN  [ret |-> Ok(Null), extensions |-> logged.members,
              delivered |-> logged.delivered]
    ELSE [ret |-> self, extensions |-> exts, delivered |-> <<>>]

\* <Result<T> as ErrorLogger>::log_error: the result it returns, the chain
\* after the call and the calls made on the members, the lock being held
\* for the whole of the hook
log_error(self, exts) ==
    IF self.t = "Err"
    THEN LET logged == Extensions_error(exts, self.e)
         IN  [ret |-> self, extensions |-> logged.members,
              delivered |-> logged.delivered]
    ELSE [ret |-> self, extensions |-> exts, delivered |-> <<>>]

----------------------------------------------------------------------------
(* The query being executed *)

\* The fields of a query are 1..n in the order of the query's text; parent[n]
\* is the field whose selection set holds n, 0 for a field of the root
ParentVectors(n) == {p \in [1..n -> 0..(n - 1)] : \A i \in 1..n : p[i] < i}

Queries ==
    UNION { {[parent |-> p, nullable |-> nl] : p \in ParentVectors(n), nl \in [1..n -> BOOLEAN]}
            : n \in 1..MaxNodes }

Nodes == DOMAIN query.parent
NodeName(n) == FieldNames[n]
Children(p) == {n \in Nodes : query.parent[n] = p}

\* The names of the fields of the selection set of p, in the order of the text
SelectionSet(p) ==
    LET fields == SelectSeq([n \in 1..Len(query.parent) |-> n],
                            LAMBDA n : query.parent[n] = p)
    IN  [i \in DOMAIN fields |-> NodeName(fields[i])]

\* The path of field n: each descent adds a node that points at the one before
RECURSIVE PathNodeOf(_)
PathNodeOf(n) ==
    QueryPathNode(IF query.parent[n] = 0 THEN None ELSE Some(PathNodeOf(query.parent[n])),
                  PathName(NodeName(n)))

\* Context::with_field: the context of field n
FieldCtx(n) ==
    [item |-> [pos |-> Pos(n, 1),
               node |-> [name |-> NodeName(n), arguments |-> NoArguments,
                         selection_set |-> SelectionSet(n)]],
     path_node |-> Some(PathNodeOf(n)),
     schema_env |-> [registry |-> registry]]

TypeOfNode(n) == IF Children(n) = {} THEN "String" ELSE "Obj"

\* The ResolveInfo of field n, built before and after its resolution
ResolveInfoOf(n, id) ==
    [resolve_id |-> id,
     path_node |-> PathNodeOf(n),
     parent_type |-> IF query.parent[n] = 0 THEN QueryRoot_type_name
                     ELSE TypeOfNode(query.parent[n]),
     return_type |-> IF query.nullable[n] THEN TypeOfNode(n) ELSE TypeOfNode(n) \o "!"]

\* QueryEnv's resolve id source: the id of the next field resolution
get_resolve_id(n) ==
    [parent |-> IF query.parent[n] = 0 THEN None
                ELSE Some(resolve_id[query.parent[n]].current),
     current |-> inc_resolve_id]

\* Field m is field n or is below it
RECURSIVE Within(_, _)
Within(m, n) ==
    \/ m = n
    \/ query.parent[m] # 0 /\ Within(query.parent[m], n)

\* What the resolver of field n returns: a field of the root goes through
\* QueryRoot, a field below through the resolver of its own object type
ResolverOutcome(n) ==
    IF query.parent[n] = 0
    THEN QueryRoot_resolve_field(QueryRootSelf, FieldCtx(n)).ret
    ELSE T_resolve_field(inner, FieldCtx(n))

JObject(entries) == [t |-> "map", entries |-> entries]

OutputOf(outputs, key) ==
    outputs[CHOOSE i \in DOMAIN outputs : outputs[i].key = key].out

\* resolve_object(ctx, root): the fields of the selection set are resolved
\* concurrently, outputs holding what they returned in the order they were
\* done; the first error is the error of the object, and otherwise the
\* object has the fields' values in the order of the selection set
resolve_object(ctx, root, outputs) ==
    LET failed == SelectSeq(outputs, LAMBDA o : o.out.t = "Err")
    IN  IF failed # <<>> THEN failed[1].out
        ELSE Ok(JObject([i \in DOMAIN ctx.selection_set |->
                            [key |-> ctx.selection_set[i],
                             value |-> OutputOf(outputs, ctx.selection_set[i]).v]]))

\* A mutant of QueryRoot::resolve: the object is put together in the order
\* the fields were done.
QueryRoot_resolve_as_done(self, ctx, outputs) ==
    LET failed == SelectSeq(outputs, LAMBDA o : o.out.t = "Err")
    IN  IF failed # <<>> THEN failed[1].out
        ELSE Ok(JObject([i \in DOMAIN outputs |->
                            [key |-> outputs[i].key, value |-> outputs[i].out.v]]))

\* <QueryRoot<T> as OutputValueType>::resolve
QueryRoot_resolve(self, ctx, outputs) == resolve_object(ctx, self, outputs)

----------------------------------------------------------------------------
(* Specification Spec: a query is executed *)

\* The chain of a query: a named and an unnamed member, nothing seen yet
NewExtensions ==
    <<NewMember(Some("tracing"), TRUE, None), NewMember(None, TRUE, None)>>

\* A query of Queries is executed against an inner root whose resolvers fail
\* for the fields in inner.failing. The resolver of a field below a failing
\* field is never called, so no such field is in inner.failing. Whether a
\* field is nullable decides nothing unless an error reaches the field, so
\* the fields that no error can reach are taken as nullable.
Init ==
    /\ registry = BuiltRegistry
    /\ data = EmptyMap
    /\ ctx_data = EmptyMap
    /\ disable_introspection = FALSE
    /\ CallIdle
    /\ query \in Queries
    /\ inner \in {[failing |-> {NodeName(n) : n \in F}] : F \in SUBSET Nodes}
    /\ \A n, m \in Nodes :
           (NodeName(n) \in inner.failing /\ NodeName(m) \in inner.failing /\ Within(m, n))
               => m = n
    /\ \A n \in Nodes :
           (\A m \in Nodes : Within(m, n) => NodeName(m) \notin inner.failing)
               => query.nullable[n]
    /\ pc = [n \in Nodes |-> "pending"]
    /\ resolve_id = [n \in Nodes |-> NoRet]
    /\ inc_resolve_id = 0
    /\ joined = [p \in {0} \cup Nodes |-> <<>>]
    /\ errors = <<>>
    /\ response = NoRet
    /\ extensions = NewExtensions
    /\ LockIdle

\* The resolution of field n starts: it takes its resolve id, the chain is
\* told, and its resolver is called
StartField(n) ==
    /\ pc[n] = "pending"
    /\ \/ query.parent[n] = 0
       \/ /\ query.parent[n] # 0
          /\ pc[query.parent[n]] = "started"
          /\ ResolverOutcome(query.parent[n]).t = "Ok"
    /\ LET id == get_resolve_id(n)
       IN  /\ resolve_id' = [resolve_id EXCEPT ![n] = id]
           /\ inc_resolve_id' = inc_resolve_id + 1
           /\ extensions' = Extensions_resolve_start(extensions,
                                                     ResolveInfoOf(n, id)).members
    /\ pc' = [pc EXCEPT ![n] = "started"]
    /\ UNCHANGED <<envVars, callVars, query, joined, errors, response, lockVars>>

\* The result of field n once the fields of its selection set are done:
\* what its resolver returned, or for a composite value the object put
\* together from its fields
FieldResult(n) ==
    LET own == ResolverOutcome(n)
    IN  IF own.t = "Err" \/ Children(n) = {} THEN own
        ELSE resolve_object([selection_set |-> SelectionSet(n)], n, joined[n])

\* The resolution of field n ends: its resolver has returned and the fields
\* of its selection set are done; an error is logged, and is swallowed into
\* null if the field is nullable
CompleteField(n) ==
    /\ pc[n] = "started"
    /\ ResolverOutcome(n).t = "Ok" => \A c \in Children(n) : pc[c] = "done"
    /\ LET raw == FieldResult(n)
           logged == log_error(raw, extensions)
           swallowed == logged.ret.t = "Err" /\ query.nullable[n]
           out == IF swallowed THEN Ok(Null) ELSE logged.ret
       IN  /\ extensions' = Extensions_resolve_end(logged.extensions,
                                                   ResolveInfoOf(n, resolve_id[n])).members
           /\ errors' = IF swallowed THEN Append(errors, logged.ret.e) ELSE errors
           /\ joined' = [joined EXCEPT ![query.parent[n]] =
                            Append(@, [key |-> NodeName(n), out |-> out])]
    /\ pc' = [pc EXCEPT ![n] = "done"]
    /\ UNCHANGED <<envVars, callVars, query, resolve_id, inc_resolve_id, response,
                   lockVars>>

\* The fields of the root are done: QueryRoot::resolve returns and the
\* response is made
Finish ==
    /\ response = NoRet
    /\ \A n \in Children(0) : pc[n] = "done"
    /\ LET r == QueryRoot_resolve(QueryRootSelf, [selection_set |-> SelectionSet(0)],
                                  joined[0])
       IN  response' = IF r.t = "Ok" THEN [data |-> Some(r.v), errors |-> errors]
                       ELSE [data |-> None, errors |-> Append(errors, r.e)]
    /\ UNCHANGED <<envVars, callVars, query, pc, resolve_id, inc_resolve_id, joined,
                   errors, extensions, lockVars>>

Next ==
    \/ \E n \in Nodes : StartField(n)
    \/ \E n \in Nodes : CompleteField(n)
    \/ Finish

Spec == Init /\ [][Next]_vars

----------------------------------------------------------------------------
(* Claims about the execution of a query *)

KeysOf(entries) == [i \in DOMAIN entries |-> entries[i].key]

\* C1: the keys of the object that QueryRoot::resolve puts together are in
\* the order of the fields in the query's text, whatever the order in which
\* the fields were done.
C1_SelectionOrder ==
    (response # NoRet /\ response.data.t = "Some") =>
        /\ response.data.v.t = "map"
        /\ KeysOf(response.data.v.entries) = SelectionSet(0)

\* C1 witness: three fields of the root were done in the order c, a, b and
\* the response has been made.
C1_Witness ==
    /\ response # NoRet
    /\ response.data.t = "Some"
    /\ KeysOf(joined[0]) = <<"c", "a", "b">>
    /\ KeysOf(response.data.v.entries) = <<"a", "b", "c">>

\* What the response holds for a field
Discarded == [t |-> "discarded"]
Missing == [t |-> "missing"]

RECURSIVE ValueAt(_)
ValueAt(n) ==
    LET up == IF query.parent[n] # 0 THEN ValueAt(query.parent[n])
              ELSE IF response.data.t = "Some" THEN response.data.v ELSE Discarded
    IN  IF up.t = "map"
        THEN IF \E i \in DOMAIN up.entries : up.entries[i].key = NodeName(n)
             THEN up.entries[CHOOSE i \in DOMAIN up.entries : up.entries[i].key = NodeName(n)].value
             ELSE Missing
        ELSE IF up.t \in {"null", "discarded"} THEN Discarded
        ELSE Missing

\* The resolver of field n was called and failed
Failed(n) == pc[n] = "done" /\ NodeName(n) \in inner.failing

RECURSIVE NamesTo(_)
NamesTo(n) ==
    IF query.parent[n] = 0 THEN <<JString(NodeName(n))>>
    ELSE Append(NamesTo(query.parent[n]), JString(NodeName(n)))

\* The error of the resolver of field n, with the field's position and path
ErrorOf(n) ==
    Error_Query(Pos(n, 1), Some(JArray(NamesTo(n))),
                [t |-> "FieldError", message |-> NodeName(n)])

\* The nearest nullable field at or above n, 0 if there is none
RECURSIVE Catcher(_)
Catcher(n) ==
    IF query.nullable[n] THEN n
    ELSE IF query.parent[n] = 0 THEN 0
    ELSE Catcher(query.parent[n])

\* Field c is null in the response, or is below a field that another failure
\* made null
NullIn(c, n) ==
    \/ ValueAt(c) = Null
    \/ ValueAt(c) = Discarded /\ \E m \in Nodes : m # n /\ Failed(m)

\* C2: when the resolver of a field fails, a nullable field is null and its
\* error is in the error list of the response with the field's path; for a
\* non-null field the nearest nullable field above it is null, with nothing
\* below it, and if there is none the response has errors and no data.
C2_NullPropagation ==
    response # NoRet =>
        \A n \in Nodes : Failed(n) =>
            /\ query.nullable[n] =>
                   /\ \E i \in DOMAIN response.errors : response.errors[i] = ErrorOf(n)
                   /\ NullIn(n, n)
            /\ (~query.nullable[n] /\ Catcher(n) # 0) => NullIn(Catcher(n), n)
            /\ Catcher(n) = 0 =>
                   /\ response.data = None
                   /\ response.errors # <<>>
                   /\ (\A m \in Nodes : Failed(m) => m = n) => response.errors = <<ErrorOf(n)>>

\* C2 witness: the nullable field a holds b and the non-null c; b was
\* resolved, the resolver of c failed, and a is null in the response.
C2_Witness ==
    /\ response # NoRet
    /\ query.parent = <<0, 1, 1>>
    /\ query.nullable[1] /\ ~query.nullable[3]
    /\ inner.failing = {"c"}
    /\ KeysOf(joined[1]) = <<"b", "c">>
    /\ response.data = Some(JObject(<<[key |-> "a", value |-> Null]>>))
    /\ response.errors = <<ErrorOf(3)>>

\* The resolve ids given out so far
IdsGiven == {resolve_id[n].current : n \in {m \in Nodes : resolve_id[m] # NoRet}}

\* C3: no two field resolutions of a query share a ResolveId, and every
\* member of the chain sees each id once in resolve_start and, after that,
\* once in resolve_end, however the resolutions interleave.
C3_ResolveIdsPaired ==
    /\ \A n, m \in Nodes :
           (n # m /\ resolve_id[n] # NoRet /\ resolve_id[m] # NoRet)
               => resolve_id[n].current # resolve_id[m].current
    /\ \A n \in Nodes : (pc[n] = "pending") <=> (resolve_id[n] = NoRet)
    /\ \A i \in DOMAIN extensions :
           /\ DOMAIN extensions[i].seen = IdsGiven
           /\ \A n \in Nodes :
                  /\ pc[n] = "started" =>
                         extensions[i].seen[resolve_id[n].current] = <<"resolve_start">>
                  /\ pc[n] = "done" =>
                         extensions[i].seen[resolve_id[n].current]
                             = <<"resolve_start", "resolve_end">>

\* C3 witness: three fields of the root started in the order c, b, a and
\* were done in the order b, c, a.
C3_Witness ==
    /\ response # NoRet
    /\ Cardinality(Nodes) = 3
    /\ \A n \in Nodes : pc[n] = "done"
    /\ resolve_id[3].current < resolve_id[2].current
    /\ resolve_id[2].current < resolve_id[1].current
    /\ KeysOf(joined[0]) = <<"b", "c", "a">>
    /\ Len(extensions) = 2

----------------------------------------------------------------------------
(* Specification SpecExt: one call is made on a chain *)

MaxMembers == 2     \* a chain has at most MaxMembers members

\* The members a chain may hold: what name() returns, whether the hooks are
\* overridden, what result() returns
Members ==
    {NewMember(name, overrides, result)
        : name \in {None, Some("tracing"), Some("logger")},
          overrides \in BOOLEAN,
          result \in {None} \cup {Some(JNumber(v)) : v \in 1..MaxVal}}

Chains == SeqUpTo(Members, MaxMembers)

\* What the hooks are called with
ResolveInfos ==
    {[resolve_id |-> [parent |-> None, current |-> k],
      path_node |-> QueryPathNode(None, PathName("a")),
      parent_type |-> QueryRoot_type_name,
      return_type |-> "String"] : k \in 0..1}
FieldErrors ==
    {Error_Query(Pos(1, 3), None, [t |-> "FieldError", message |-> "a"]),
     Error_Query(Pos(2, 5), Some(JArray(<<JString("b")>>)),
                 FieldNotFound("b", QueryRoot_type_name))}
FieldResults == {Ok(Null), Ok(JString("a"))} \cup {Err(e) : e \in FieldErrors}

InitExt ==
    /\ registry = EmptyMap
    /\ data = EmptyMap
    /\ ctx_data = EmptyMap
    /\ disable_introspection = FALSE
    /\ inner = NoInner
    /\ CallIdle
    /\ QueryIdle
    /\ extensions \in Chains
    /\ LockIdle

\* A hook has been called on the chain with args and has left the chain as
\* chain.members, having made the calls chain.delivered
Hooked(hook, args, chain) ==
    /\ call' = [op |-> hook, args |-> args]
    /\ ret' = [t |-> "unit"]
    /\ delivered' = chain.delivered
    /\ extensions' = chain.members
    /\ UNCHANGED <<envVars, inner_calls, queryVars, lockVars>>

ParseStart ==
    /\ call = NoCall
    /\ \E query_source \in {"{ a }", "{ a b }"},
          variables \in {[v \in {} |-> Null], [v \in {"id"} |-> VInt(1)]} :
           Hooked("parse_start", <<query_source, variables>>,
                  Extensions_parse_start(extensions, query_source, variables))

ParseEnd ==
    /\ call = NoCall
    /\ \E document \in {[t |-> "ExecutableDocument", fields |-> <<"a">>],
                          [t |-> "ExecutableDocument", fields |-> <<"a", "b">>]} :
           Hooked("parse_end", <<document>>, Extensions_parse_end(extensions, document))

ValidationStart ==
    /\ call = NoCall
    /\ Hooked("validation_start", <<>>, Extensions_validation_start(extensions))

ValidationEnd ==
    /\ call = NoCall
    /\ Hooked("validation_end", <<>>, Extensions_validation_end(extensions))

ExecutionStart ==
    /\ call = NoCall
    /\ Hooked("execution_start", <<>>, Extensions_execution_start(extensions))

ExecutionEnd ==
    /\ call = NoCall
    /\ Hooked("execution_end", <<>>, Extensions_execution_end(extensions))

ResolveStart ==
    /\ call = NoCall
    /\ \E info \in ResolveInfos :
           Hooked("resolve_start", <<info>>, Extensions_resolve_start(extensions, info))

ResolveEnd ==
    /\ call = NoCall
    /\ \E info \in ResolveInfos :
           Hooked("resolve_end", <<info>>, Extensions_resolve_end(extensions, info))

ErrorHook ==
    /\ call = NoCall
    /\ \E err \in FieldErrors :
           Hooked("error", <<err>>, Extensions_error(extensions, err))

\* A result is passed through log_error
LogError ==
    /\ call = NoCall
    /\ \E result \in FieldResults :
           LET r == log_error(result, extensions)
           IN  /\ call' = [op |-> "log_error", self |-> result]
               /\ ret' = r.ret
               /\ delivered' = r.delivered
               /\ extensions' = r.extensions
    /\ UNCHANGED <<envVars, inner_calls, queryVars, lockVars>>

\* result() is called on the chain
Result ==
    /\ call = NoCall
    /\ call' = [op |-> "result"]
    /\ ret' = Extensions_result(extensions)
    /\ delivered' = result_calls(extensions)
    /\ UNCHANGED <<envVars, inner_calls, execVars>>

NextExt ==
    \/ ParseStart
    \/ ParseEnd
    \/ ValidationStart
    \/ ValidationEnd
    \/ ExecutionStart
    \/ ExecutionEnd
    \/ ResolveStart
    \/ ResolveEnd
    \/ ErrorHook
    \/ LogError
    \/ Result

SpecExt == InitExt /\ [][NextExt]_vars

----------------------------------------------------------------------------
(* Claims about the chain *)

\* The member as it was when the chain was made
Fresh(e) == NewMember(e.name, e.overrides, e.result)

\* C12: a phase hook called on the chain is delivered to every member
\* exactly once, in registration order and with the arguments of the call,
\* whatever the members before it do with it; each member is then as its
\* own hook leaves it.
C12_FanOut ==
    call.op \in PhaseHooks =>
        /\ Len(delivered) = Len(extensions)
        /\ \A i \in DOMAIN extensions :
               /\ delivered[i] = [member |-> i, hook |-> call.op, args |-> call.args]
               /\ extensions[i] = Member_call(Fresh(extensions[i]), call.op, call.args)

\* C12 witness: parse_start has been called on a chain whose first member
\* keeps the empty defaults and whose second member records; both were
\* called, the first before the second, and the second has recorded it.
C12_Witness ==
    /\ call.op = "parse_start"
    /\ Len(extensions) = 2
    /\ ~extensions[1].overrides /\ extensions[2].overrides
    /\ delivered[1].member = 1 /\ delivered[2].member = 2
    /\ extensions[1].phases = <<>>
    /\ extensions[2].phases = <<[hook |-> "parse_start", args |-> call.args]>>

----------------------------------------------------------------------------
(* Claims about the logging of errors *)

\* The field n passes its result through log_error in this step
Logs(n) == pc[n] = "started" /\ pc'[n] = "done"

\* What the selection set of the parent of n was handed for n
HandedUp(n) == OutputOf(joined[query.parent[n]], NodeName(n))

\* The errors the member e was told of
ToldOf(e) == e.errs

\* C13: each time an error passes through log_error every member of the
\* chain is told of that error exactly once, and log_error hands the same
\* error on: it goes up from a non-null field unchanged and, where a nullable
\* field swallows it into null, it is in the error list all the same. No
\* member is told of an error at any other time.
C13_ErrorLogged ==
    [][/\ \A n \in Nodes :
              Logs(n) =>
                  LET result == FieldResult(n)
                  IN  IF result.t = "Err"
                      THEN /\ \A i \in DOMAIN extensions :
                                  ToldOf(extensions[i])' =
                                      Append(ToldOf(extensions[i]), result.e)
                           /\ IF query.nullable[n]
                              THEN /\ HandedUp(n)' = Ok(Null)
                                   /\ errors' = Append(errors, result.e)
                              ELSE /\ HandedUp(n)' = result
                                   /\ errors' = errors
                      ELSE \A i \in DOMAIN extensions :
                               ToldOf(extensions[i])' = ToldOf(extensions[i])
       /\ (\A n \in Nodes : ~Logs(n)) =>
              \A i \in DOMAIN extensions :
                  ToldOf(extensions[i])' = ToldOf(extensions[i])]_vars

\* C13 witness: the resolver of the non-null field c, held by the nullable
\* field a, failed; the error passed through log_error at c and again at a,
\* where it was swallowed into null, and each member was told of it twice.
C13_Witness ==
    /\ response # NoRet
    /\ query.parent = <<0, 1, 1>>
    /\ query.nullable[1] /\ ~query.nullable[3]
    /\ inner.failing = {"c"}
    /\ HandedUp(1) = Ok(Null)
    /\ \A i \in DOMAIN extensions : extensions[i].errs = <<ErrorOf(3), ErrorOf(3)>>
    /\ response.errors = <<ErrorOf(3)>>

----------------------------------------------------------------------------
(* Specification SpecLock: concurrent resolver tasks pass their results
   through log_error, the calls on the members being steps of their own *)

MaxTasks == 2       \* the resolver tasks that run concurrently are 1..MaxTasks

\* A mutant of the drop of the guard: it is dropped once the first member
\* has been called.
guard_dropped_early(t) == tasks[t].i > 1

\* `extensions.lock().error(err);`: the guard that lock() returns is a
\* temporary of the statement and is dropped at its end, when error has
\* returned, which is when the loop over the members is through
guard_dropped(t) == tasks[t].i > Len(extensions)

\* A mutant of the test of log_error: the pattern takes every result, a
\* success with its value where the error would be.
if_let_Err_any(self) == Some(IF self.t = "Err" THEN self.e ELSE self.v)

\* `if let Err(err) = &self`: the error that is bound, if self is one
if_let_Err(self) == IF self.t = "Err" THEN Some(self.e) ELSE None

InitLock ==
    /\ registry = EmptyMap
    /\ data = EmptyMap
    /\ ctx_data = EmptyMap
    /\ disable_introspection = FALSE
    /\ inner = NoInner
    /\ CallIdle
    /\ QueryIdle
    /\ extensions = NewExtensions
    /\ lock = 0
    /\ tasks = [t \in 1..MaxTasks |-> [pc |-> "resolving", self |-> NoRet,
                                       err |-> None, i |-> 0, ret |-> NoRet]]

\* The resolver that task t was suspended on returns, and the task calls
\* log_error on the result
ResolverReturns(t) ==
    /\ tasks[t].pc = "resolving"
    /\ \E result \in FieldResults :
           tasks' = [tasks EXCEPT ![t].pc = "log_error", ![t].self = result]
    /\ UNCHANGED <<envVars, callVars, queryVars, extensions, lock>>

\* `if let Err(err) = &self`; a success is returned at once
LogErrorTest(t) ==
    /\ tasks[t].pc = "log_error"
    /\ LET err == if_let_Err(tasks[t].self)
       IN  tasks' = IF err.t = "Some"
                    THEN [tasks EXCEPT ![t].pc = "lock", ![t].err = err]
                    ELSE [tasks EXCEPT ![t].pc = "returned", ![t].ret = tasks[t].self]
    /\ UNCHANGED <<envVars, callVars, queryVars, extensions, lock>>

\* `extensions.lock()`: the task spins until the lock is free and takes it
Lock(t) ==
    /\ tasks[t].pc = "lock"
    /\ lock = 0
    /\ lock' = t
    /\ tasks' = [tasks EXCEPT ![t].pc = "error", ![t].i = 1]
    /\ UNCHANGED <<envVars, callVars, queryVars, extensions>>

\* `.error(err)`: the next member of the chain is called
CallError(t) ==
    /\ tasks[t].pc = "error"
    /\ tasks[t].i <= Len(extensions)
    /\ extensions' = [extensions EXCEPT ![tasks[t].i] =
                          Member_call(@, "error", <<tasks[t].err.v>>)]
    /\ tasks' = [tasks EXCEPT ![t].i = @ + 1]
    /\ UNCHANGED <<envVars, callVars, queryVars, lock>>

\* The end of the statement: the guard is dropped, and log_error returns self
Unlock(t) ==
    /\ tasks[t].pc = "error"
    /\ guard_dropped(t)
    /\ lock' = 0
    /\ tasks' = [tasks EXCEPT ![t].pc = "returned", ![t].ret = tasks[t].self]
    /\ UNCHANGED <<envVars, callVars, queryVars, extensions>>

NextLock ==
    \/ \E t \in DOMAIN tasks : ResolverReturns(t)
    \/ \E t \in DOMAIN tasks : LogErrorTest(t)
    \/ \E t \in DOMAIN tasks : Lock(t)
    \/ \E t \in DOMAIN tasks : CallError(t)
    \/ \E t \in DOMAIN tasks : Unlock(t)

SpecLock == InitLock /\ [][NextLock]_vars

\* Task t is inside a hook call of the chain
InHook(t) == tasks[t].pc = "error"

\* The tasks whose error has been through the whole hook call
Through == {t \in DOMAIN tasks : tasks[t].pc = "returned" /\ tasks[t].self.t = "Err"}

\* C14: at most one task is inside a hook call of the chain at any time;
\* the task inside it holds the lock from before the first member is called
\* until every member has been called, so that whenever the lock is free all
\* the members have been told of the same errors in the same order; and the
\* lock is never held by a task that is suspended on its resolver.
C14_HooksExclusive ==
    /\ \A t, u \in DOMAIN tasks : (InHook(t) /\ InHook(u)) => t = u
    /\ \A t \in DOMAIN tasks : InHook(t) <=> lock = t
    /\ \A t \in DOMAIN tasks : tasks[t].pc = "resolving" => lock # t
    /\ lock = 0 =>
           \A i \in DOMAIN extensions :
               /\ extensions[i].errs = extensions[1].errs
               /\ Len(extensions[i].errs) = Cardinality(Through)
    /\ lock # 0 =>
           \A i \in DOMAIN extensions :
               extensions[i].errs =
                   IF i < tasks[lock].i THEN extensions[1].errs
                   ELSE SubSeq(extensions[1].errs, 1, Cardinality(Through))

\* C14 witness: task 1 holds the lock halfway through the hook call, the
\* first member told and the second not yet, while task 2 waits for the lock
\* with an error of its own.
C14_Witness ==
    /\ lock = 1
    /\ tasks[1].pc = "error" /\ tasks[1].i = 2
    /\ tasks[2].pc = "lock"
    /\ Len(extensions[1].errs) = 1
    /\ extensions[2].errs = <<>>

----------------------------------------------------------------------------
(* Claims about the side-channel output *)

\* The entries of what result() returned on the chain
OutputFields == IF ret.t = "Some" THEN ret.v.fields ELSE EmptyMap

Named(i) == extensions[i].name.t = "Some"
Contributes(i) == Named(i) /\ extensions[i].result.t = "Some"

\* C15 as stated: each member that declares a name contributes an entry
\* under that name, and each member that declares no name contributes
\* nothing.
C15_NamedContribute ==
    call.op = "result" =>
        /\ \A i \in DOMAIN extensions :
               Named(i) => extensions[i].name.v \in DOMAIN OutputFields
        /\ \A k \in DOMAIN OutputFields :
               \E i \in DOMAIN extensions : Named(i) /\ extensions[i].name.v = k

\* C15 amended: each member that declares a name and whose result() returns
\* a value contributes an entry under that name, holding the value of a
\* member of that name; a member that declares no name, or whose result()
\* returns nothing, contributes nothing.
C15_NamedWithResultContribute ==
    call.op = "result" =>
        /\ \A i \in DOMAIN extensions :
               Contributes(i) => extensions[i].name.v \in DOMAIN OutputFields
        /\ \A k \in DOMAIN OutputFields :
               \E i \in DOMAIN extensions :
                   /\ Contributes(i)
                   /\ extensions[i].name.v = k
                   /\ extensions[i].result.v = OutputFields[k]

\* C15 witness: result() has been called on a chain of a member without a
\* name, which has a result, and a member named tracing, which has one too;
\* the output holds the entry tracing and nothing else.
C15_Witness ==
    /\ call.op = "result"
    /\ Len(extensions) = 2
    /\ ~Named(1) /\ extensions[1].result.t = "Some"
    /\ extensions[2].name = Some("tracing") /\ extensions[2].result.t = "Some"
    /\ DOMAIN OutputFields = {"tracing"}
    /\ OutputFields["tracing"] = extensions[2].result.v

\* C16: when no member contributes an entry, the chain being empty or every
\* member being without a name or without a result, result() returns
\* nothing; what it returns otherwise is an object with at least one entry.
C16_AbsentNotEmpty ==
    call.op = "result" =>
        /\ (\A i \in DOMAIN extensions : ~Contributes(i)) => ret = None
        /\ ret # None =>
               /\ ret.t = "Some"
               /\ ret.v.t = "map"
               /\ DOMAIN ret.v.fields # {}

\* C16 witness: result() has been called on a chain of a member without a
\* name that has a result and a named member that has none, and has returned
\* nothing.
C16_Witness ==
    /\ call.op = "result"
    /\ Len(extensions) = 2
    /\ ~Named(1) /\ extensions[1].result.t = "Some"
    /\ Named(2) /\ extensions[2].result = None
    /\ ret = None

----------------------------------------------------------------------------
(* Specification SpecCore: any one operation of the core is called during
   the execution of a query *)

InitCore ==
    /\ registry = BuiltRegistry
    /\ data = [k \in {TypeId_of("i32"), TypeId_of("Token")} |-> Box(k[2], 1)]
    /\ ctx_data = [k \in {TypeId_of("i32")} |-> Box(k[2], MaxVal)]
    /\ disable_introspection \in BOOLEAN
    /\ inner = [failing |-> {"b"}]
    /\ CallIdle
    /\ QueryIdle
    /\ extensions = NewExtensions
    /\ LockIdle

NextCore ==
    \/ NextRoot
    \/ NextData
    \/ NextExt

SpecCore == InitCore /\ [][NextCore]_vars

\* C17: no operation of the core, the dispatch of a root field, the
\* delegation to the inner root, a data lookup, the broadcast of a hook or
\* the logging of an error, changes the Type Registry, the schema-scoped data
\* map or the query-scoped data map.
C17_EnvironmentUnchanged ==
    [][/\ registry' = registry
       /\ data' = data
       /\ ctx_data' = ctx_data]_vars

\* C17 witness: an error has passed through log_error; the members of the
\* chain have changed, and the registry and the two data maps are what they
\* were when the query started.
C17_Witness ==
    /\ call.op = "log_error"
    /\ extensions # NewExtensions
    /\ \A i \in DOMAIN extensions : extensions[i].errs = <<call.self.e>>
    /\ registry = BuiltRegistry
    /\ DOMAIN data = {TypeId_of("i32"), TypeId_of("Token")}
    /\ DOMAIN ctx_data = {TypeId_of("i32")}

----------------------------------------------------------------------------
(* Specification SpecReg: the types of the core register themselves, at
   schema-build time, and the empty subscription is asked for a stream *)

MaxCalls == 3       \* at most MaxCalls calls are made

\* The calls made before the one being made, and the create_type_info calls
\* among them with the name each returned
CallCount == IF call = NoCall THEN 0 ELSE call.n
Earlier ==
    IF call = NoCall THEN {}
    ELSE IF call.op = "create_type_info"
    THEN call.earlier \cup {[of |-> call.of, ret |-> ret]}
    ELSE call.earlier

\* The inner root T is a type that registers an object, a scalar or nothing
\* under its name
InitReg ==
    /\ registry = EmptyMap
    /\ data = EmptyMap
    /\ ctx_data = EmptyMap
    /\ disable_introspection = FALSE
    /\ inner \in {[failing |-> {}, registers |-> k] : k \in {"Object", "Scalar", "nothing"}}
    /\ CallIdle
    /\ ExecIdle

\* A call of the kind op is made on the type `of` with the arguments args; r
\* is the registry after it and what it returns
CalledWith(op, of, args, r) ==
    /\ CallCount < MaxCalls
    /\ call' = [op |-> op, of |-> of, args |-> args, before |-> registry,
                earlier |-> Earlier, n |-> CallCount + 1]
    /\ ret' = r.ret
    /\ registry' = r.registry
    /\ UNCHANGED <<data, ctx_data, disable_introspection, inner, inner_calls,
                   delivered, execVars>>

Called(op, of, r) == CalledWith(op, of, <<>>, r)

QueryRootCreateTypeInfo ==
    Called("create_type_info", "QueryRoot", QueryRoot_create_type_info(inner, registry))

EmptySubscriptionCreateTypeInfo ==
    Called("create_type_info", "EmptySubscription",
           EmptySubscription_create_type_info(registry))

UploadCreateTypeInfo ==
    Called("create_type_info", "Upload", Upload_create_type_info(registry))

IsEmpty ==
    Called("is_empty", "EmptySubscription",
           [registry |-> registry, ret |-> EmptySubscription_is_empty])

\* A stream is asked for a field of the subscription root
CreateFieldStream ==
    \E name \in {"a", "nosuch"} :
        \E ctx \in {c \in Contexts(name, {NoArguments}) :
                       /\ c.item.pos = Pos(1, 3)
                       /\ c.path_node = None
                       /\ c.item.node.selection_set = <<"__typename">>} :
            Called("create_field_stream", "EmptySubscription",
                   [registry |-> registry,
                    ret |-> [field |-> name,
                             items |-> EmptySubscription_create_field_stream(
                                           [t |-> "EmptySubscription"], ctx)]])

\* The uploads of a request and the input values an argument may carry
Uploads ==
    {UploadValue("a.txt", Some("text/plain"), 1), UploadValue("b.bin", None, 2)}
InputValues ==
    {VNull, VString("a.txt"), VInt(1)} \cup {VUpload(u) : u \in Uploads}
        \cup {VList(<<VUpload(u)>>) : u \in Uploads}

\* An argument of type Upload is parsed; it may be absent
UploadParse ==
    \E value \in {None} \cup {Some(v) : v \in InputValues} :
        CalledWith("parse", "Upload", value,
                   [registry |-> registry, ret |-> Upload_parse(value)])

\* The handle the last parse gave is serialized
UploadToValue ==
    /\ call.op = "parse"
    /\ ret.t = "Ok"
    /\ CalledWith("to_value", "Upload", ret.v,
                  [registry |-> registry, ret |-> Upload_to_value(ret.v)])

\* What to_value gave for a handle is parsed
UploadReparse ==
    /\ call.op = "to_value"
    /\ CalledWith("reparse", "Upload", [handle |-> call.args, value |-> ret],
                  [registry |-> registry, ret |-> Upload_parse(Some(ret))])

\* The validation of a query asks the scalar whether a value is one of its
UploadIsValid ==
    \E value \in InputValues :
        CalledWith("is_valid", "Upload", value,
                   [registry |-> registry, ret |-> Upload_is_valid(value)])

NextReg ==
    \/ QueryRootCreateTypeInfo
    \/ EmptySubscriptionCreateTypeInfo
    \/ UploadCreateTypeInfo
    \/ IsEmpty
    \/ CreateFieldStream
    \/ UploadParse
    \/ UploadToValue
    \/ UploadReparse
    \/ UploadIsValid

SpecReg == InitReg /\ [][NextReg]_vars

----------------------------------------------------------------------------
(* Claims about registration and the empty subscription *)

Registered(of) == call.op = "create_type_info" /\ call.of = of

\* The field table of the entry under the inner root's name
RootFields == registry[T_type_name].fields

\* The entry of the field table under key
FieldAt(fields, key) == fields[CHOOSE j \in DOMAIN fields : fields[j].key = key].value

\* C18: after QueryRoot::create_type_info, with an inner root that registers
\* an object, the entry under the inner root's name holds every field the
\* inner type registered and beside them `__schema`, of the schema
\* introspection type and without arguments, and `__type`, of the type
\* `__Type` with the one argument `name` of the type `String!`; the
\* introspection type is registered, and the name returned is the one the
\* inner root registered under.
C18_InnerThenInjected ==
    (Registered("QueryRoot") /\ inner.registers = "Object") =>
        /\ T_type_name \in DOMAIN registry
        /\ registry[T_type_name].kind = "Object"
        /\ \A i \in DOMAIN T_fields : RootFields[i] = T_fields[i]
        /\ {RootFields[j].key : j \in DOMAIN RootFields}
               = {T_fields[i].key : i \in DOMAIN T_fields} \cup {"__schema", "__type"}
        /\ Len(RootFields) = Len(T_fields) + 2
        /\ FieldAt(RootFields, "__schema").name = "__schema"
        /\ FieldAt(RootFields, "__schema").ty = "__Schema"
        /\ "__Schema" \in DOMAIN registry
        /\ FieldAt(RootFields, "__schema").args = <<>>
        /\ FieldAt(RootFields, "__type").name = "__type"
        /\ FieldAt(RootFields, "__type").ty = "__Type"
        /\ Len(FieldAt(RootFields, "__type").args) = 1
        /\ FieldAt(RootFields, "__type").args[1].key = "name"
        /\ FieldAt(RootFields, "__type").args[1].value.name = "name"
        /\ FieldAt(RootFields, "__type").args[1].value.ty = "String!"
        /\ ret = T_type_name

\* C18 witness: QueryRoot::create_type_info has been called on the empty
\* registry; the inner root's five fields are followed by `__schema` and
\* `__type`.
C18_Witness ==
    /\ Registered("QueryRoot")
    /\ inner.registers = "Object"
    /\ call.before = EmptyMap
    /\ Len(RootFields) = Len(FieldNames) + 2
    /\ RootFields[Len(FieldNames) + 1].key = "__schema"
    /\ RootFields[Len(FieldNames) + 2].key = "__type"
    /\ ret = "Query"

\* C19: a call of create_type_info for a type for which it was called before
\* leaves the registry as it was and returns the name it returned before.
C19_Idempotent ==
    call.op = "create_type_info" =>
        \A e \in call.earlier :
            e.of = call.of => (registry = call.before /\ ret = e.ret)

\* C19 witness: QueryRoot::create_type_info has been called a second time,
\* the entry of the inner root holding the injected fields already.
C19_Witness ==
    /\ Registered("QueryRoot")
    /\ inner.registers = "Object"
    /\ \E e \in call.earlier : e.of = "QueryRoot"
    /\ \E j \in DOMAIN RootFields : RootFields[j].key = "__type"
    /\ registry = call.before
    /\ ret = "Query"

\* C20: the empty subscription says it is empty; what it registers is an
\* object type without fields; and the stream it makes for a field gives one
\* item, the query error that subscriptions are not configured, at the
\* default position and without a path, and then ends, so that no item of
\* it is a success.
C20_EmptySubscription ==
    /\ (call.op = "is_empty" /\ call.of = "EmptySubscription") => ret = TRUE
    /\ Registered("EmptySubscription") =>
           /\ EmptySubscription_type_name \in DOMAIN registry
           /\ registry[EmptySubscription_type_name].kind = "Object"
           /\ registry[EmptySubscription_type_name].fields = <<>>
    /\ call.op = "create_field_stream" =>
           /\ Len(ret.items) = 1
           /\ ret.items[1].t = "Err"
           /\ ret.items[1].e.t = "Query"
           /\ ret.items[1].e.err = [t |-> "NotConfiguredSubscriptions"]
           /\ ret.items[1].e.pos = [line |-> 0, column |-> 0]
           /\ ret.items[1].e.path = None
           /\ \A k \in DOMAIN ret.items : ret.items[k].t # "Ok"

\* C20 witness: the empty subscription has registered itself and has then
\* been asked for the stream of the field a, which gave its one error.
C20_Witness ==
    /\ call.op = "create_field_stream"
    /\ ret.field = "a"
    /\ \E e \in call.earlier : e.of = "EmptySubscription"
    /\ "EmptyMutation" \in DOMAIN registry
    /\ Len(ret.items) = 1
    /\ ret.items[1].t = "Err"

----------------------------------------------------------------------------
(* Claims about the upload scalar *)

\* C21: Upload::parse succeeds exactly when the input is an upload value,
\* and the handle is over that same upload; for every other input it fails
\* with the expected-type error that carries the input, and an absent input
\* fails with the expected-type error that carries null. The is_valid the
\* scalar registers accepts exactly the upload values, those parse accepts.
C21_UploadParse ==
    /\ call.op = "parse" =>
           IF call.args.t = "Some" /\ call.args.v.t = "Upload"
           THEN ret = [t |-> "Ok",
                       v |-> [t |-> "UploadHandle", upload |-> call.args.v.upload]]
           ELSE IF call.args.t = "Some"
           THEN ret = [t |-> "Err",
                       e |-> [t |-> "ExpectedType", value |-> call.args.v]]
           ELSE ret = [t |-> "Err",
                       e |-> [t |-> "ExpectedType", value |-> [t |-> "Null"]]]
    /\ call.op = "is_valid" => (ret <=> call.args.t = "Upload")

\* C21 witness: a string was given where an upload is expected and parse
\* failed with the error that carries the string.
C21_Witness ==
    /\ call.op = "parse"
    /\ call.args = Some(VString("a.txt"))
    /\ ret = Err(ExpectedType(VString("a.txt")))

\* C22: to_value of every handle is null, parsing what to_value gave fails,
\* and so never gives back the handle that was serialized.
C22_WriteOnly ==
    /\ call.op = "to_value" => ret = [t |-> "Null"]
    /\ call.op = "reparse" =>
           /\ call.args.value = [t |-> "Null"]
           /\ ret.t = "Err"
           /\ ret # Ok(call.args.handle)

\* C22 witness: the upload a.txt was accepted, its handle was serialized and
\* the serialized form was parsed, which failed.
C22_Witness ==
    /\ call.op = "reparse"
    /\ call.args.handle = Upload(UploadValue("a.txt", Some("text/plain"), 1))
    /\ ret = Err(ExpectedType(VNull))

----------------------------------------------------------------------------
(* The derive macros' helpers: validators and default values.

   A NestedMeta is Meta::Path, Meta::List, Meta::NameValue or a literal; a
   TokenStream made by quote! is kept as the tree of what was spliced into
   it. *)

MaxNested == 3      \* a list of an attribute has at most MaxNested entries

Meta_Path(path) == [t |-> "Path", path |-> path]
Meta_List(path, nested) == [t |-> "List", path |-> path, nested |-> nested]
Meta_NameValue(path, lit) == [t |-> "NameValue", path |-> path, lit |-> lit]
NestedMeta_Lit(lit) == [t |-> "Lit", lit |-> lit]

Lit_Str(value) == [t |-> "Str", value |-> value]
Lit_Int(neg, digits) == [t |-> "Int", neg |-> neg, digits |-> digits]
Lit_Float(digits) == [t |-> "Float", digits |-> digits]
Lit_Bool(value) == [t |-> "Bool", value |-> value]
Lit_Char(value) == [t |-> "Char", value |-> value]

\* syn::Error::new_spanned(tokens, message), and the error of a parser
Error_new_spanned(tokens, message) ==
    [t |-> "Error", span |-> tokens, message |-> message]
ParseError(input) == [t |-> "Error", span |-> input, message |-> "parse error"]

\* The strings that are an expression, and syn::parse_str::<Expr>
Exprs == {"1", "10"}
parse_str_Expr(s) ==
    IF s \in Exprs THEN Ok([t |-> "Expr", tokens |-> s]) ELSE Err(ParseError(s))

\* quote! { #name: (#expr).into() }, quote! { #ty { #(#params),* } } and
\* quote! { #crate_name::validators::InputValueValidatorExt::and(#prev, #item) }
\* (or for "or")
Quote_param(name, expr) == [name |-> name, into |-> expr]
Quote_struct(ty, params) == [t |-> "struct", ty |-> ty, params |-> params]
Quote_ext(crate_name, op, prev, item) ==
    [t |-> op, crate_name |-> crate_name, prev |-> prev, item |-> item]

\* validators.into_iter().fold(None, |acc, item| ...): the first item as it
\* is, each later one combined with what came before it
RECURSIVE fold(_, _, _, _)
fold(crate_name, op, validators, acc) ==
    IF validators = <<>> THEN acc
    ELSE fold(crate_name, op, Tail(validators),
              IF acc.t = "Some"
              THEN Some(Quote_ext(crate_name, op, acc.v, Head(validators)))
              ELSE Some(Head(validators)))

\* Option::unwrap
unwrap(opt) ==
    IF opt.t = "Some" THEN Ok(opt.v)
    ELSE Panic("called " \o BACKTICK \o "Option::unwrap()" \o BACKTICK \o " on a "
               \o BACKTICK \o "None" \o BACKTICK \o " value")

\* The loop over the properties of a validator `ty(name = "expr", ...)`
RECURSIVE params_loop(_, _, _)
params_loop(nested_meta, items, params) ==
    IF items = <<>> THEN Ok(params)
    ELSE LET item == Head(items)
         IN  IF item.t = "NameValue"
             THEN IF item.lit.t = "Str"
                  THEN LET expr == parse_str_Expr(item.lit.value)
                       IN  IF expr.t = "Err" THEN expr
                           ELSE params_loop(nested_meta, Tail(items),
                                            Append(params, Quote_param(item.path, expr.v)))
                  ELSE Err(Error_new_spanned(item.lit, "Value must be string literal"))
             ELSE Err(Error_new_spanned(nested_meta, "Invalid property for validator"))

RECURSIVE generate_nested_validator(_, _)
RECURSIVE validators_loop(_, _, _)

\* The loop over the entries of `and(...)` or `or(...)`: `?` ends it at the
\* first entry that fails
validators_loop(crate_name, nested, validators) ==
    IF nested = <<>> THEN Ok(validators)
    ELSE LET v == generate_nested_validator(crate_name, Head(nested))
         IN  IF v.t # "Ok" THEN v
             ELSE validators_loop(crate_name, Tail(nested), Append(validators, v.v))

\* utils::generate_nested_validator
generate_nested_validator(crate_name, nested_meta) ==
    IF nested_meta.t = "List"
    THEN IF nested_meta.path \in {"and", "or"}
         THEN LET validators == validators_loop(crate_name, nested_meta.nested, <<>>)
              IN  IF validators.t # "Ok" THEN validators
                  ELSE unwrap(fold(crate_name, nested_meta.path, validators.v, None))
         ELSE LET params == params_loop(nested_meta, nested_meta.nested, <<>>)
              IN  IF params.t = "Err" THEN params
                  ELSE Ok(Quote_struct(nested_meta.path, params.v))
    ELSE IF nested_meta.t = "Path" THEN Ok(Quote_struct(nested_meta.path, <<>>))
    ELSE Err(Error_new_spanned(nested_meta, "Invalid validator"))

\* quote! { Some(::std::sync::Arc::new(#validator)) } and quote! { None }
Quote_Some_Arc_new(validator) == [t |-> "Some(Arc::new)", validator |-> validator]
Quote_None == [t |-> "None tokens"]

OnlyOneValidator ==
    "Only one validator can be defined. You can connect combine validators with "
        \o BACKTICK \o "and" \o BACKTICK \o " or " \o BACKTICK \o "or" \o BACKTICK

\* utils::generate_validator; args is the list of the attribute or None
generate_validator(crate_name, args) ==
    IF args.t = "Some"
    THEN IF Len(args.v) > 1 THEN Err(Error_new_spanned(args.v, OnlyOneValidator))
         ELSE IF args.v = <<>>
         THEN Err(Error_new_spanned(args.v, "At least one validator must be defined"))
         ELSE LET validator == generate_nested_validator(crate_name, args.v[1])
              IN  IF validator.t # "Ok" THEN validator
                  ELSE Ok(Quote_Some_Arc_new(validator.v))
    ELSE Ok(Quote_None)

\* The i32 range, and LitInt::base10_parse::<i32>, which is i32::from_str:
\* the digits are taken in from the left with checked_mul(10) and then
\* checked_add, or checked_sub after a minus sign
I32_MAX == 2147483647
I32_MIN == -I32_MAX - 1
RECURSIVE from_str_i32(_, _, _)
from_str_i32(neg, digits, result) ==
    IF digits = <<>> THEN Some(result)
    ELSE LET d == Head(digits)
         IN  IF neg
             THEN IF result < (I32_MIN + d + 9) \div 10 THEN None
                  ELSE from_str_i32(neg, Tail(digits), result * 10 - d)
             ELSE IF result > (I32_MAX - d) \div 10 THEN None
                  ELSE from_str_i32(neg, Tail(digits), result * 10 + d)
base10_parse_i32(lit) ==
    LET value == from_str_i32(lit.neg, lit.digits, 0)
    IN  IF value.t = "Some" THEN Ok(value.v) ELSE Err(ParseError(lit))

\* LitFloat::base10_parse::<f64>: the digits of a float literal are a float
base10_parse_f64(digits) == Ok([f64 |-> digits])

\* utils::generate_default_value
generate_default_value(lit) ==
    CASE lit.t = "Str" -> Ok([t |-> "{ value.to_string() }", value |-> lit.value])
      [] lit.t = "Int" ->
             LET value == base10_parse_i32(lit)
             IN  IF value.t = "Err" THEN value
                 ELSE Ok([t |-> "{ value as i32 }", value |-> value.v])
      [] lit.t = "Float" ->
             LET value == base10_parse_f64(lit.digits)
             IN  IF value.t = "Err" THEN value
                 ELSE Ok([t |-> "{ value as f64 }", value |-> value.v])
      [] lit.t = "Bool" -> Ok([t |-> "{ value }", value |-> lit.value])
      [] OTHER -> Err(Error_new_spanned(lit,
             "The default value type only be string, integer, float and boolean, other types should use default_with"))

\* The strings that are a token stream, and <TokenStream as FromStr>::from_str
TokenStreams == {"my_default()", "vec![1]"}
TokenStream_parse(str) ==
    IF str \in TokenStreams THEN Ok([t |-> "TokenStream", tokens |-> str])
    ELSE Err(ParseError(str))

\* utils::generate_default_with
generate_default_with(lit) ==
    LET tokens == TokenStream_parse(lit.value)
    IN  IF tokens.t = "Err" THEN tokens
        ELSE Ok([t |-> "( tokens )", tokens |-> tokens.v])

\* quote! { Default::default() }
Quote_Default_default == [t |-> "Default::default()"]

\* utils::generate_default, were default_value looked at before default_with
generate_default_value_first(default, default_value, default_with) ==
    IF default_value.t = "Some"
    THEN LET value == generate_default_value(default_value.v)
         IN  IF value.t = "Err" THEN value ELSE Ok(Some(value.v))
    ELSE IF default_with.t = "Some"
    THEN LET with == generate_default_with(default_with.v)
         IN  IF with.t = "Err" THEN with ELSE Ok(Some(with.v))
    ELSE IF default THEN Ok(Some(Quote_Default_default))
    ELSE Ok(None)

\* utils::generate_default
generate_default(default, default_value, default_with) ==
    IF default_with.t = "Some"
    THEN LET with == generate_default_with(default_with.v)
         IN  IF with.t = "Err" THEN with ELSE Ok(Some(with.v))
    ELSE IF default_value.t = "Some"
    THEN LET value == generate_default_value(default_value.v)
         IN  IF value.t = "Err" THEN value ELSE Ok(Some(value.v))
    ELSE IF default THEN Ok(Some(Quote_Default_default))
    ELSE Ok(None)

----------------------------------------------------------------------------
(* Specification SpecDerive: a macro of the derive crate calls one of the
   helpers on what the attributes of an item hold *)

\* The entries an attribute list may hold that are no combinator: a
\* validator without and with properties, and what is no validator
Properties ==
    {<<>>, <<Meta_NameValue("min", Lit_Str("1"))>>,
     <<Meta_NameValue("min", Lit_Str("1")), Meta_NameValue("max", Lit_Str("10"))>>,
     <<Meta_NameValue("min", Lit_Str("1 +"))>>,
     <<Meta_NameValue("min", Lit_Int(FALSE, <<1>>))>>,
     <<Meta_NameValue("min", Lit_Str("1")), Meta_Path("max")>>}
Plain ==
    {Meta_Path("Email"), Meta_NameValue("min", Lit_Str("1")), NestedMeta_Lit(Lit_Int(FALSE, <<1>>))}
        \cup {Meta_List("IntRange", ps) : ps \in Properties}

\* Combinators over these, and combinators that hold combinators
Combinators == {"and", "or"}
Entries ==
    {Meta_Path("Email"), Meta_Path("MAC"), NestedMeta_Lit(Lit_Int(FALSE, <<1>>)),
     Meta_List("IntRange", <<Meta_NameValue("min", Lit_Str("1"))>>),
     Meta_List("IntRange", <<Meta_NameValue("min", Lit_Str("1 +"))>>)}
Flat == {Meta_List(c, s) : c \in Combinators, s \in SeqUpTo(Entries, MaxNested)}
Inner ==
    {Meta_Path("Email"), Meta_List("and", <<>>),
     Meta_List("or", <<Meta_Path("MAC"), Meta_Path("Email")>>)}
Deep == {Meta_List(c, s) : c \in Combinators, s \in SeqUpTo(Inner, MaxNested)}
NestedMetas == Plain \cup Flat \cup Deep

\* The list of a validator attribute: absent, or some entries
ValidatorArgs ==
    {None} \cup {Some(<<m>>) : m \in Plain \cup Deep}
           \cup {Some(s) : s \in SeqUpTo({Meta_Path("Email"), Meta_List("and", <<>>)}, MaxNested)}

Lits ==
    {Lit_Str("a"), Lit_Int(FALSE, <<0>>), Lit_Int(TRUE, <<1, 2>>),
     Lit_Int(FALSE, <<2, 1, 4, 7, 4, 8, 3, 6, 4, 7>>),
     Lit_Int(FALSE, <<2, 1, 4, 7, 4, 8, 3, 6, 4, 8>>),
     Lit_Int(TRUE, <<2, 1, 4, 7, 4, 8, 3, 6, 4, 8>>),
     Lit_Int(TRUE, <<2, 1, 4, 7, 4, 8, 3, 6, 4, 9>>),
     Lit_Int(FALSE, <<1, 0, 0, 0, 0, 0, 0, 0, 0, 0, 0>>),
     Lit_Float("1.5"), Lit_Bool(TRUE), Lit_Char("c")}
LitStrs == {Lit_Str("my_default()"), Lit_Str("vec![1]"), Lit_Str("(")}
CrateNames == {"crate", "async_graphql"}

InitDerive ==
    /\ registry = EmptyMap
    /\ data = EmptyMap
    /\ ctx_data = EmptyMap
    /\ disable_introspection = FALSE
    /\ inner = NoInner
    /\ CallIdle
    /\ ExecIdle

\* A helper was called with args and returned r
Generated(op, args, r) ==
    /\ call' = [op |-> op, args |-> args]
    /\ ret' = r
    /\ UNCHANGED <<envVars, inner_calls, delivered, execVars>>

GenerateNestedValidator ==
    /\ call = NoCall
    /\ \E crate_name \in CrateNames, nested_meta \in NestedMetas :
           Generated("generate_nested_validator",
                     [crate_name |-> crate_name, nested_meta |-> nested_meta],
                     generate_nested_validator(crate_name, nested_meta))

GenerateValidator ==
    /\ call = NoCall
    /\ \E crate_name \in CrateNames, args \in ValidatorArgs :
           Generated("generate_validator", [crate_name |-> crate_name, args |-> args],
                     generate_validator(crate_name, args))

GenerateDefault ==
    /\ call = NoCall
    /\ \E default \in BOOLEAN,
          default_value \in {None} \cup {Some(l) : l \in Lits},
          default_with \in {None} \cup {Some(l) : l \in LitStrs} :
           Generated("generate_default",
                     [default |-> default, default_value |-> default_value,
                      default_with |-> default_with],
                     generate_default(default, default_value, default_with))

NextDerive ==
    \/ GenerateNestedValidator
    \/ GenerateValidator
    \/ GenerateDefault

SpecDerive == InitDerive /\ [][NextDerive]_vars

----------------------------------------------------------------------------
(* Claims about the derive helpers *)

\* What generate_nested_validator was called on, and whether it is a
\* combinator
CalledMeta == call.args.nested_meta
IsCombinator(meta) == meta.t = "List" /\ meta.path \in {"and", "or"}

\* and(...and(and(v1, v2), v3)..., vn), or the same of or, of the first n
\* of the codes
RECURSIVE LeftNested(_, _, _, _)
LeftNested(crate_name, op, codes, n) ==
    IF n = 1 THEN codes[1]
    ELSE [t |-> op, crate_name |-> crate_name,
          prev |-> LeftNested(crate_name, op, codes, n - 1), item |-> codes[n]]

\* Whether the digits a, read as a number, are at most the digits b; neither
\* has a leading zero
DigitsLeq(a, b) ==
    \/ Len(a) < Len(b)
    \/ /\ Len(a) = Len(b)
       /\ \/ a = b
          \/ \E i \in DOMAIN a : a[i] < b[i] /\ \A j \in 1..(i - 1) : a[j] = b[j]

\* Whether an integer literal fits in 32 signed bits, and the number it is
FitsI32(lit) ==
    DigitsLeq(lit.digits, IF lit.neg THEN <<2, 1, 4, 7, 4, 8, 3, 6, 4, 8>>
                          ELSE <<2, 1, 4, 7, 4, 8, 3, 6, 4, 7>>)
RECURSIVE NumberOf(_, _)
NumberOf(lit, n) ==
    IF n = 0 THEN 0
    ELSE NumberOf(lit, n - 1)
             + (IF lit.neg THEN -1 ELSE 1) * lit.digits[n] * 10^(Len(lit.digits) - n)

\* C23: generate_validator accepts exactly one validator: without the
\* attribute it produces `None`; a list of more than one entry fails with
\* "Only one validator can be defined..."; an empty list fails with "At
\* least one validator must be defined"; a list of one entry produces
\* `Some(Arc::new(v))` of the code v generated for the entry, or the error
\* of generating it.
C23_OneValidator ==
    call.op = "generate_validator" =>
        LET args == call.args.args
        IN  IF args.t = "None" THEN ret = Ok([t |-> "None tokens"])
            ELSE IF Len(args.v) > 1
            THEN ret.t = "Err" /\ ret.e.message = OnlyOneValidator
            ELSE IF Len(args.v) = 0
            THEN ret.t = "Err" /\ ret.e.message = "At least one validator must be defined"
            ELSE LET v == generate_nested_validator(call.args.crate_name, args.v[1])
                 IN  \/ v.t = "Ok" /\ ret = Ok([t |-> "Some(Arc::new)", validator |-> v.v])
                     \/ v.t = "Err" /\ ret = v

\* C29: generate_default goes by a fixed precedence. With default_with its
\* expression is used, whatever default_value and the flag are, and the
\* outcome is that of default_with alone; else with default_value its
\* literal is used, and a literal that is no string, integer, float or
\* boolean, or an integer outside 32 signed bits, is an error, reported only
\* here; else with the flag `Default::default()` is used; else there is no
\* default.
C29_DefaultPrecedence ==
    call.op = "generate_default" =>
        LET with == call.args.default_with
            value == call.args.default_value
        IN  IF with.t = "Some"
            THEN IF with.v.value \in TokenStreams
                 THEN ret = Ok(Some([t |-> "( tokens )",
                                     tokens |-> [t |-> "TokenStream",
                                                 tokens |-> with.v.value]]))
                 ELSE ret.t = "Err" /\ ret.e.span = with.v.value
            ELSE IF value.t = "Some"
            THEN CASE value.v.t = "Str" ->
                          ret = Ok(Some([t |-> "{ value.to_string() }",
                                         value |-> value.v.value]))
                   [] value.v.t = "Int" ->
                          IF FitsI32(value.v)
                          THEN ret = Ok(Some([t |-> "{ value as i32 }",
                                              value |-> NumberOf(value.v,
                                                                 Len(value.v.digits))]))
                          ELSE ret.t = "Err" /\ ret.e.span = value.v
                   [] value.v.t = "Float" ->
                          ret = Ok(Some([t |-> "{ value as f64 }",
                                         value |-> [f64 |-> value.v.digits]]))
                   [] value.v.t = "Bool" ->
                          ret = Ok(Some([t |-> "{ value }", value |-> value.v.value]))
                   [] OTHER -> ret.t = "Err" /\ ret.e.span = value.v
            ELSE IF call.args.default THEN ret = Ok(Some([t |-> "Default::default()"]))
            ELSE ret = Ok(None)

\* C29 witness: default_with is given beside a default_value that is no
\* literal of the four kinds and beside the flag, and its expression is used.
C29_Witness ==
    /\ call.op = "generate_default"
    /\ call.args.default
    /\ call.args.default_value = Some(Lit_Char("c"))
    /\ call.args.default_with = Some(Lit_Str("my_default()"))
    /\ ret.t = "Ok"
    /\ ret.v.v.t = "( tokens )"

\* C30: generate_nested_validator returns code or an error for every
\* attribute and never aborts, an `and(...)` or `or(...)` without entries
\* included; with n >= 1 entries it gives the left-nested combination of
\* their codes, or the first error among them.
C30_NeverAborts ==
    call.op = "generate_nested_validator" =>
        /\ ret.t \in {"Ok", "Err"}
        /\ (IsCombinator(CalledMeta) /\ CalledMeta.nested # <<>>) =>
               LET nested == CalledMeta.nested
                   codes == [i \in DOMAIN nested |->
                                generate_nested_validator(call.args.crate_name, nested[i])]
                   failed == {i \in DOMAIN nested : codes[i].t # "Ok"}
               IN  IF failed = {}
                   THEN ret = Ok(LeftNested(call.args.crate_name, CalledMeta.path,
                                            [i \in DOMAIN nested |-> codes[i].v],
                                            Len(nested)))
                   ELSE ret = codes[CHOOSE i \in failed : \A j \in failed : i <= j]

----------------------------------------------------------------------------
(* Claims about the introspection flag *)

\* The root wrapper of the call, were its flag the other way
FlagFlipped == [inner |-> inner, disable_introspection |-> ~disable_introspection]

\* C24: the introspection-disabled flag changes the outcome of the root
\* field `__schema` only: for every other field name resolve_field returns,
\* and asks of the inner root, the same with the flag set as with it
\* cleared; and `__type` gives the introspection object of a type the
\* registry holds when introspection is disabled.
C24_FlagOnlySchema ==
    (call.op = "resolve_field" /\ call.ctx.item.node.name # "__schema") =>
        /\ ret = QueryRoot_resolve_field(FlagFlipped, call.ctx).ret
        /\ inner_calls = QueryRoot_resolve_field(FlagFlipped, call.ctx).calls
        /\ (/\ call.ctx.item.node.name = "__type"
            /\ disable_introspection
            /\ "name" \in DOMAIN CallArguments
            /\ CallArguments["name"].t = "String"
            /\ CallArguments["name"].s \in DOMAIN registry) =>
               /\ ret.t = "Ok"
               /\ ret.v.t = "object"
               /\ ret.v.of.t = "__Type"

\* C24 witness: introspection is disabled and `__type` has given the
\* introspection object of the type Query.
C24_Witness ==
    /\ Resolving("__type")
    /\ disable_introspection
    /\ "name" \in DOMAIN CallArguments
    /\ CallArguments["name"] = VString("Query")
    /\ ret.t = "Ok"
    /\ ret.v.t = "object"
    /\ ret.v.of.detail = registry["Query"]

----------------------------------------------------------------------------
(* Claims about the names of the registered types *)

\* type_name() of each type of the core that registers itself
TypeNameOf(of) ==
    CASE of = "QueryRoot" -> QueryRoot_type_name
      [] of = "EmptySubscription" -> EmptySubscription_type_name
      [] of = "Upload" -> Upload_type_name

\* The keys under which the last call put an entry, those of introspection
\* aside
PutBy == (DOMAIN registry \ DOMAIN call.before) \ {"__Schema", "__Type"}

\* C25: for QueryRoot, EmptySubscription and Upload the name of the MetaType
\* that create_type_info puts into the registry is what type_name() returns,
\* so that the entry found under type_name() is the type's own.
C25_NameIsTypeName ==
    \A of \in {"QueryRoot", "EmptySubscription", "Upload"} :
        Registered(of) =>
            \A k \in PutBy : k = TypeNameOf(of) /\ registry[k].name = TypeNameOf(of)

----------------------------------------------------------------------------
(* Claims about log_error on a success *)

\* Task t is in log_error with a success
Succeeded(t) == tasks[t].pc = "log_error" /\ tasks[t].self.t = "Ok"

\* C26: a success that is passed through log_error is returned as it is at
\* once: no member of the chain is called for it and the lock is not taken;
\* and whatever log_error is given it returns the same, a success as that
\* success and an error as that error.
C26_SuccessUntouched ==
    [][\A t \in DOMAIN tasks :
           /\ (Succeeded(t) /\ tasks'[t] # tasks[t]) =>
                  /\ tasks'[t].pc = "returned"
                  /\ tasks'[t].ret = tasks[t].self
                  /\ tasks'[t].i = 0
                  /\ extensions' = extensions
                  /\ lock' = lock
           /\ tasks[t].self.t = "Ok" => lock' # t
           /\ (tasks[t].pc # "returned" /\ tasks'[t].pc = "returned") =>
                  /\ tasks'[t].ret = tasks[t].self
                  /\ tasks'[t].ret.t = tasks[t].self.t]_vars

\* C26 witness: task 1 has passed the success "a" through log_error while
\* task 2 held the lock for an error of its own; the success came back, and
\* the members were told of the one error only.
C26_Witness ==
    /\ tasks[1].pc = "returned"
    /\ tasks[1].self = Ok(JString("a"))
    /\ tasks[1].ret = Ok(JString("a"))
    /\ tasks[1].i = 0
    /\ lock = 2
    /\ tasks[2].i = 2
    /\ Len(extensions[1].errs) = 1

----------------------------------------------------------------------------
(* Claims about the entries of the side-channel output *)

\* The members that declare the name k and return a result
Returning(k) ==
    {i \in DOMAIN extensions :
        extensions[i].name = Some(k) /\ extensions[i].result.t = "Some"}

\* The members whose result() was called
ResultCalled == {delivered[k].member : k \in DOMAIN delivered}

\* C27: in Extensions::result, result() is called on a member only if the
\* member declares a name; under a name that several members declare the
\* output holds one entry, with the value of the last of them, in the order
\* of registration, that returned a result; and a named member whose
\* result() returns nothing adds no entry.
C27_LastNamedWins ==
    call.op = "result" =>
        /\ \A i \in ResultCalled : extensions[i].name.t = "Some"
        /\ \A k \in DOMAIN OutputFields : Returning(k) # {}
        /\ \A i \in DOMAIN extensions :
               extensions[i].name.t = "Some" =>
                   LET k == extensions[i].name.v
                   IN  IF Returning(k) = {} THEN k \notin DOMAIN OutputFields
                       ELSE /\ k \in DOMAIN OutputFields
                            /\ OutputFields[k] =
                                   extensions[CHOOSE j \in Returning(k) :
                                                 \A l \in Returning(k) : l <= j].result.v

\* C27 witness: two members are named tracing and return different results;
\* result() was called on both and the output holds the one entry tracing
\* with the result of the second.
C27_Witness ==
    /\ call.op = "result"
    /\ Len(extensions) = 2
    /\ extensions[1].name = Some("tracing") /\ extensions[2].name = Some("tracing")
    /\ extensions[1].result = Some(JNumber(1))
    /\ extensions[2].result = Some(JNumber(2))
    /\ ResultCalled = {1, 2}
    /\ DOMAIN OutputFields = {"tracing"}
    /\ OutputFields["tracing"] = JNumber(2)

----------------------------------------------------------------------------
(* Claims about the injection into an inner root that is no object *)

\* The keys of a field table
FieldKeys(fields) == {fields[j].key : j \in DOMAIN fields}

\* C28: QueryRoot::create_type_info injects `__schema` and `__type` only
\* when the entry under the inner root's name is an object type. Where the
\* entry is missing the registry gains the entries of introspection and no
\* other; where it is of another kind it is the entry the inner type
\* registered, as it was registered; in both cases the inner root's name is
\* returned all the same. In every case what the inner type registered
\* under other field names is left as it was.
C28_InjectIntoObjectOnly ==
    Registered("QueryRoot") =>
        /\ ret = T_type_name
        /\ \A k \in DOMAIN call.before : k \in DOMAIN registry
        /\ \A k \in DOMAIN call.before : k # T_type_name => registry[k] = call.before[k]
        /\ inner.registers = "nothing" =>
               /\ T_type_name \notin DOMAIN registry
               /\ DOMAIN registry = DOMAIN call.before \cup {"__Schema", "__Type"}
        /\ inner.registers = "Scalar" =>
               /\ T_type_name \in DOMAIN registry
               /\ registry[T_type_name] =
                      [kind |-> "Scalar", name |-> T_type_name, description |-> None]
        /\ inner.registers = "Object" =>
               /\ registry[T_type_name].kind = "Object"
               /\ {"__schema", "__type"} \subseteq FieldKeys(RootFields)
               /\ \A i \in DOMAIN T_fields : RootFields[i] = T_fields[i]

\* C28 witness: the inner root registers a scalar under its name; the call
\* has registered the types of introspection and the scalar, which holds no
\* field, and has returned the name.
C28_Witness ==
    /\ Registered("QueryRoot")
    /\ inner.registers = "Scalar"
    /\ call.before = EmptyMap
    /\ DOMAIN registry = {"__Schema", "__Type", "Query"}
    /\ registry["Query"].kind = "Scalar"
    /\ ret = "Query"

====
